---------------------------- MODULE Spec2Model ----------------------------
(***************************************************************************)
(* A model of the AgentOps RCA backend (src/backend_fastapi.py): the data  *)
(* gateway get_supabase_data, the assembler get_incident_data, the RCA     *)
(* generator analyze_with_groq with its reply normalisation, and the       *)
(* request handlers that call them.                                        *)
(*                                                                         *)
(* Texts are sequences of one-character strings, indexed from 1; the       *)
(* Python operations on them (strip, find, rfind, slicing, json.loads) are *)
(* operators that keep Python's 0-based results where the code uses them.  *)
(***************************************************************************)
EXTENDS Integers, Sequences, FiniteSets, TLC

(***************************************************************************)
(* Python text operations used by the normalisation, lines 310-324.        *)
(***************************************************************************)

\* The characters str.strip() removes (those of the modelled texts).
Whitespace == {" ", "\n", "\t", "\r", "\f"}

RECURSIVE lstrip(_)
lstrip(s) ==
    IF s # <<>> /\ Head(s) \in Whitespace THEN lstrip(Tail(s)) ELSE s

RECURSIVE rstrip(_)
rstrip(s) ==
    IF s # <<>> /\ s[Len(s)] \in Whitespace
    THEN rstrip(SubSeq(s, 1, Len(s) - 1))
    ELSE s

\* str.strip(): leading and trailing whitespace removed.
strip(s) == rstrip(lstrip(s))

\* Whether pat occurs in s at the 1-based position i.
StartsAt(s, i, pat) ==
    /\ i >= 1
    /\ i + Len(pat) - 1 <= Len(s)
    /\ SubSeq(s, i, i + Len(pat) - 1) = pat

\* str.find(pat): the lowest 0-based index of pat in s, or -1.
find(s, pat) ==
    LET hits == {i \in 1..Len(s) : StartsAt(s, i, pat)}
    IN  IF hits = {} THEN -1
        ELSE (CHOOSE i \in hits : \A j \in hits : i <= j) - 1

\* str.rfind(pat): the highest 0-based index of pat in s, or -1.
rfind(s, pat) ==
    LET hits == {i \in 1..Len(s) : StartsAt(s, i, pat)}
    IN  IF hits = {} THEN -1
        ELSE (CHOOSE i \in hits : \A j \in hits : i >= j) - 1

\* pat in s
contains(s, pat) == find(s, pat) # -1

\* s[start:end] for 0 <= start < end <= len(s)
slice(s, start, end) == SubSeq(s, start + 1, end)

\* The backquote character. The TLA+ lexer takes no backquote inside a string,
\* so the model writes it as an apostrophe, a character no modelled text uses.
BQ == "'"

\* The two fence markers of lines 313 and 318.
FENCE == <<BQ, BQ, BQ>>
FENCE_JSON == <<BQ, BQ, BQ, "j", "s", "o", "n">>

\* Lines 310-324: the candidate text handed to json.loads.
extract_bare_fence(cleaned) ==
    LET start_idx == find(cleaned, FENCE) + Len(FENCE)
        end_idx == rfind(cleaned, FENCE)
    IN  IF end_idx > start_idx THEN slice(cleaned, start_idx, end_idx) ELSE cleaned

extract_json_fence_first_close(cleaned) ==
    LET start_idx == find(cleaned, FENCE_JSON) + Len(FENCE_JSON)
        rest == SubSeq(cleaned, start_idx + 1, Len(cleaned))
        end_idx == IF contains(rest, FENCE) THEN start_idx + find(rest, FENCE) ELSE -1
    IN  IF end_idx > start_idx THEN slice(cleaned, start_idx, end_idx) ELSE cleaned

extract_json_fence(cleaned) ==
    LET start_idx == find(cleaned, FENCE_JSON) + Len(FENCE_JSON)
        end_idx == rfind(cleaned, FENCE)
    IN  IF end_idx > start_idx THEN slice(cleaned, start_idx, end_idx) ELSE cleaned

clean_content_falls_through(content) ==
    LET cleaned == strip(content)
        tagged == IF contains(cleaned, FENCE_JSON) THEN extract_json_fence(cleaned)
                  ELSE cleaned
    IN  strip(IF tagged # cleaned THEN tagged
              ELSE IF contains(cleaned, FENCE) THEN extract_bare_fence(cleaned)
              ELSE cleaned)

clean_content(content) ==
    LET cleaned == strip(content)
    IN  strip(IF contains(cleaned, FENCE_JSON) THEN extract_json_fence(cleaned)
              ELSE IF contains(cleaned, FENCE) THEN extract_bare_fence(cleaned)
              ELSE cleaned)

(***************************************************************************)
(* json.loads, line 328: the standard decoder on the candidate text.  A    *)
(* value is [t |-> its Python type, v |-> its payload]: the characters of  *)
(* a str, the lexeme of a number or of true/false, the elements of a list, *)
(* the key -> value function of a dict.  A parse is [ok, val, end], end    *)
(* the 1-based position after the value; ok = FALSE is JSONDecodeError.    *)
(***************************************************************************)

\* The whitespace json.loads skips between tokens (WHITESPACE in json.decoder).
JsonWhitespace == {" ", "\n", "\t", "\r"}

\* Characters below 0x20 that a strict JSON string may not hold.
ControlChars == {"\n", "\t", "\r", "\f"}

DigitChars == {"0", "1", "2", "3", "4", "5", "6", "7", "8", "9"}

JValue(type, payload) == [t |-> type, v |-> payload]
PyNone == JValue("NoneType", <<>>)
PyStr(chars) == JValue("str", chars)
PyList(items) == JValue("list", items)
PyDict(members) == JValue("dict", members)

NoParse == [ok |-> FALSE, val |-> PyNone, end |-> 0]
Parsed(val, end) == [ok |-> TRUE, val |-> val, end |-> end]

RECURSIVE skip_ws(_, _)
skip_ws(s, i) ==
    IF i <= Len(s) /\ s[i] \in JsonWhitespace THEN skip_ws(s, i + 1) ELSE i

RECURSIVE skip_digits(_, _)
skip_digits(s, i) ==
    IF i <= Len(s) /\ s[i] \in DigitChars THEN skip_digits(s, i + 1) ELSE i

\* The one-character escapes of a JSON string (BACKSLASH in json.decoder);
\* \b and \uXXXX are outside the modelled fragment and no modelled text has them.
Unescape(c) ==
    CASE c = "n" -> "\n"
      [] c = "t" -> "\t"
      [] c = "r" -> "\r"
      [] c = "f" -> "\f"
      [] OTHER -> c

\* py_scanstring, strict: from the position after the opening quote.
RECURSIVE scan_string(_, _, _)
scan_string(s, i, acc) ==
    IF i > Len(s) THEN NoParse
    ELSE IF s[i] = "\"" THEN Parsed(PyStr(acc), i + 1)
    ELSE IF s[i] \in ControlChars THEN NoParse
    ELSE IF s[i] = "\\"
         THEN IF i + 1 <= Len(s) /\ s[i + 1] \in {"\"", "\\", "/", "n", "t", "r", "f"}
              THEN scan_string(s, i + 2, Append(acc, Unescape(s[i + 1])))
              ELSE NoParse
    ELSE scan_string(s, i + 1, Append(acc, s[i]))

\* NUMBER_RE: (-?(?:0|[1-9]\d*))(\.\d+)?([eE][-+]?\d+)? ; an int unless it has
\* a fraction or an exponent.  Each part is matched from where the previous
\* one ended; an end of 0 says the integer part did not match.
number_int_end(s, i1) ==
    IF i1 <= Len(s) /\ s[i1] = "0" THEN i1 + 1
    ELSE IF i1 <= Len(s) /\ s[i1] \in DigitChars THEN skip_digits(s, i1)
    ELSE 0

number_frac_end(s, intEnd) ==
    IF /\ intEnd <= Len(s)
       /\ s[intEnd] = "."
       /\ skip_digits(s, intEnd + 1) > intEnd + 1
    THEN skip_digits(s, intEnd + 1)
    ELSE intEnd

number_exp_digits(s, fracEnd) ==
    IF fracEnd + 1 <= Len(s) /\ s[fracEnd + 1] \in {"+", "-"}
    THEN fracEnd + 2
    ELSE fracEnd + 1

number_exp_end(s, fracEnd, expStart) ==
    IF /\ fracEnd <= Len(s)
       /\ s[fracEnd] \in {"e", "E"}
       /\ skip_digits(s, expStart) > expStart
    THEN skip_digits(s, expStart)
    ELSE fracEnd

number_value(s, i, intEnd, expEnd) ==
    Parsed(JValue(IF expEnd = intEnd THEN "int" ELSE "float",
                  SubSeq(s, i, expEnd - 1)), expEnd)

number_tail(s, i, intEnd, fracEnd) ==
    number_value(s, i, intEnd,
                 number_exp_end(s, fracEnd, number_exp_digits(s, fracEnd)))

number_from_int(s, i, intEnd) ==
    IF intEnd = 0 THEN NoParse
    ELSE number_tail(s, i, intEnd, number_frac_end(s, intEnd))

scan_number(s, i) ==
    number_from_int(s, i,
        number_int_end(s, IF i <= Len(s) /\ s[i] = "-" THEN i + 1 ELSE i))

\* The literals of the scanner, with the Python type each decodes to.
LIT_NULL == <<"n", "u", "l", "l">>
LIT_TRUE == <<"t", "r", "u", "e">>
LIT_FALSE == <<"f", "a", "l", "s", "e">>
LIT_NAN == <<"N", "a", "N">>
LIT_INF == <<"I", "n", "f", "i", "n", "i", "t", "y">>
LIT_NEG_INF == <<"-">> \o LIT_INF

\* The last cases of _scan_once: a number if NUMBER_RE matches, else NaN,
\* Infinity, -Infinity, else no value.
number_or_constant(s, i, number) ==
    IF number.ok THEN number
    ELSE IF StartsAt(s, i, LIT_NAN)
         THEN Parsed(JValue("float", LIT_NAN), i + Len(LIT_NAN))
    ELSE IF StartsAt(s, i, LIT_INF)
         THEN Parsed(JValue("float", LIT_INF), i + Len(LIT_INF))
    ELSE IF StartsAt(s, i, LIT_NEG_INF)
         THEN Parsed(JValue("float", LIT_NEG_INF), i + Len(LIT_NEG_INF))
    ELSE NoParse

scan_literal(s, i) ==
    IF StartsAt(s, i, LIT_NULL) THEN Parsed(PyNone, i + Len(LIT_NULL))
    ELSE IF StartsAt(s, i, LIT_TRUE)
         THEN Parsed(JValue("bool", LIT_TRUE), i + Len(LIT_TRUE))
    ELSE IF StartsAt(s, i, LIT_FALSE)
         THEN Parsed(JValue("bool", LIT_FALSE), i + Len(LIT_FALSE))
    ELSE number_or_constant(s, i, scan_number(s, i))

RECURSIVE scan_once(_, _)
RECURSIVE parse_array_items(_, _, _)
RECURSIVE parse_object_members(_, _, _)

\* JSONArray: after a value, at position j, comes ] or a comma and a value.
array_delimiter(s, acc, j) ==
    IF j > Len(s) THEN NoParse
    ELSE IF s[j] = "]" THEN Parsed(PyList(acc), j + 1)
    ELSE IF s[j] # "," THEN NoParse
    ELSE parse_array_items(s, skip_ws(s, j + 1), acc)

array_after_value(s, acc, r) ==
    IF ~r.ok THEN NoParse
    ELSE array_delimiter(s, Append(acc, r.val), skip_ws(s, r.end))

\* JSONArray: the elements from position i on, acc the ones before.
parse_array_items(s, i, acc) == array_after_value(s, acc, scan_once(s, i))

array_first(s, j) ==
    IF j <= Len(s) /\ s[j] = "]" THEN Parsed(PyList(<<>>), j + 1)
    ELSE parse_array_items(s, j, <<>>)

\* JSONArray, from the position after [.
parse_array(s, i) == array_first(s, skip_ws(s, i))

\* JSONObject: after a member's value, at position j, comes } or a comma and
\* a member.
member_delimiter(s, acc, j) ==
    IF j > Len(s) THEN NoParse
    ELSE IF s[j] = "}" THEN Parsed(PyDict(acc), j + 1)
    ELSE IF s[j] # "," THEN NoParse
    ELSE parse_object_members(s, skip_ws(s, j + 1), acc)

\* A repeated key keeps the last value, as a dict does.
member_after_value(s, acc, key, r) ==
    IF ~r.ok THEN NoParse
    ELSE member_delimiter(s, (key :> r.val) @@ acc, skip_ws(s, r.end))

member_colon(s, acc, key, c) ==
    IF ~(c <= Len(s) /\ s[c] = ":") THEN NoParse
    ELSE member_after_value(s, acc, key, scan_once(s, skip_ws(s, c + 1)))

member_after_key(s, acc, k) ==
    IF ~k.ok THEN NoParse
    ELSE member_colon(s, acc, k.val.v, skip_ws(s, k.end))

\* JSONObject: the members from position i on ("key" : value), acc the ones
\* before.
parse_object_members(s, i, acc) ==
    IF ~(i <= Len(s) /\ s[i] = "\"") THEN NoParse
    ELSE member_after_key(s, acc, scan_string(s, i + 1, <<>>))

object_first(s, j) ==
    IF j <= Len(s) /\ s[j] = "}" THEN Parsed(PyDict(<<>>), j + 1)
    ELSE parse_object_members(s, j, <<>>)

\* JSONObject, from the position after {.
parse_object(s, i) == object_first(s, skip_ws(s, i))

\* _scan_once of json.scanner: one value at position i.
scan_once(s, i) ==
    IF i > Len(s) THEN NoParse
    ELSE IF s[i] = "\"" THEN scan_string(s, i + 1, <<>>)
    ELSE IF s[i] = "{" THEN parse_object(s, i + 1)
    ELSE IF s[i] = "[" THEN parse_array(s, i + 1)
    ELSE scan_literal(s, i)

\* JSONDecoder.decode: leading whitespace, one value, trailing whitespace, end.
decode_end(s, r) ==
    IF r.ok /\ skip_ws(s, r.end) > Len(s) THEN r ELSE NoParse

json_loads(s) == decode_end(s, scan_once(s, skip_ws(s, 1)))

(***************************************************************************)
(* Building the RCAResponse, lines 330-352, with the field types of the    *)
(* RCAResponse class, lines 75-82.  incident_id is copied from the         *)
(* aggregate and analysis_timestamp is the clock: neither depends on the   *)
(* reply, and the model leaves them out of the result record.              *)
(***************************************************************************)

\* The keys read at lines 332-336.
KEY_SUMMARY ==
    <<"s", "u", "m", "m", "a", "r", "y">>
KEY_ROOT_CAUSE ==
    <<"r", "o", "o", "t", "_", "c", "a", "u", "s", "e">>
KEY_CONTRIBUTING_FACTORS ==
    <<"c", "o", "n", "t", "r", "i", "b", "u", "t", "i", "n", "g", "_", "f",
      "a", "c", "t", "o", "r", "s">>
KEY_RECOMMENDATIONS ==
    <<"r", "e", "c", "o", "m", "m", "e", "n", "d", "a", "t", "i", "o", "n",
      "s">>
KEY_EMAIL_DRAFT ==
    <<"e", "m", "a", "i", "l", "_", "d", "r", "a", "f", "t">>

\* The defaults of analysis.get, lines 332, 333 and 336.
DEFAULT_SUMMARY ==
    <<"A", "n", "a", "l", "y", "s", "i", "s", " ", "s", "u", "m", "m", "a",
      "r", "y", " ", "n", "o", "t", " ", "a", "v", "a", "i", "l", "a", "b",
      "l", "e">>
DEFAULT_ROOT_CAUSE ==
    <<"R", "o", "o", "t", " ", "c", "a", "u", "s", "e", " ", "n", "o", "t",
      " ", "i", "d", "e", "n", "t", "i", "f", "i", "e", "d">>
DEFAULT_EMAIL_DRAFT ==
    <<"E", "m", "a", "i", "l", " ", "d", "r", "a", "f", "t", " ", "n", "o",
      "t", " ", "a", "v", "a", "i", "l", "a", "b", "l", "e">>

\* The canned texts of the fallback result, lines 346-350.
FALLBACK_SUMMARY ==
    <<"L", "L", "M", " ", "a", "n", "a", "l", "y", "s", "i", "s", " ", "c",
      "o", "m", "p", "l", "e", "t", "e", "d", " ", "b", "u", "t", " ", "r",
      "e", "s", "p", "o", "n", "s", "e", " ", "f", "o", "r", "m", "a", "t",
      " ", "w", "a", "s", " ", "i", "n", "v", "a", "l", "i", "d">>
FALLBACK_ROOT_CAUSE ==
    <<"A", "n", "a", "l", "y", "s", "i", "s", " ", "c", "o", "m", "p", "l",
      "e", "t", "e", "d", " ", "b", "u", "t", " ", "r", "o", "o", "t", " ",
      "c", "a", "u", "s", "e", " ", "d", "e", "t", "a", "i", "l", "s", " ",
      "u", "n", "a", "v", "a", "i", "l", "a", "b", "l", "e">>
FALLBACK_FACTOR ==
    <<"A", "n", "a", "l", "y", "s", "i", "s", " ", "c", "o", "m", "p", "l",
      "e", "t", "e", "d">>
FALLBACK_RECOMMENDATION ==
    <<"R", "e", "v", "i", "e", "w", " ", "i", "n", "c", "i", "d", "e", "n",
      "t", " ", "d", "a", "t", "a", " ", "m", "a", "n", "u", "a", "l", "l",
      "y">>
FALLBACK_EMAIL_DRAFT ==
    <<"A", "n", "a", "l", "y", "s", "i", "s", " ", "c", "o", "m", "p", "l",
      "e", "t", "e", "d", ".", " ", "P", "l", "e", "a", "s", "e", " ", "r",
      "e", "v", "i", "e", "w", " ", "t", "h", "e", " ", "i", "n", "c", "i",
      "d", "e", "n", "t", " ", "d", "e", "t", "a", "i", "l", "s", " ", "m",
      "a", "n", "u", "a", "l", "l", "y", ".">>

\* str() of a decoded number or boolean, as pydantic 1 applies it to a str field.
PY_TRUE == <<"T", "r", "u", "e">>
PY_FALSE == <<"F", "a", "l", "s", "e">>

py_str(val) ==
    CASE val.t = "bool" -> IF val.v = LIT_TRUE THEN PY_TRUE ELSE PY_FALSE
      [] val.t = "int" /\ val.v = <<"-", "0">> -> <<"0">>
      [] val.t = "float" /\ val.v = LIT_NAN -> <<"n", "a", "n">>
      [] val.t = "float" /\ val.v = LIT_INF -> <<"i", "n", "f">>
      [] val.t = "float" /\ val.v = LIT_NEG_INF -> <<"-", "i", "n", "f">>
      [] OTHER -> val.v

\* Validation of a field declared str.  The repository pins no pydantic
\* version: pydantic 1 turns an int, float or bool into its str(), pydantic 2
\* rejects them; both reject None, a list and a dict.
valid_str(val, pydantic_coerces) ==
    \/ val.t = "str"
    \/ pydantic_coerces /\ val.t \in {"int", "float", "bool"}

as_str(val) == IF val.t = "str" THEN val.v ELSE py_str(val)

\* Validation of a field declared List[str].
valid_str_list(val, pydantic_coerces) ==
    /\ val.t = "list"
    /\ \A k \in 1..Len(val.v) : valid_str(val.v[k], pydantic_coerces)

as_str_list(val) == [k \in 1..Len(val.v) |-> as_str(val.v[k])]

\* What analyze_with_groq's inner block ends with: an RCAResponse (parsed at
\* line 330 or the fallback of line 344), or an exception that is not a
\* JSONDecodeError and so leaves the inner try.
RCAResponse(via, summary, root_cause, factors, recommendations, email_draft) ==
    [kind |-> "RCAResponse", via |-> via,
     summary |-> summary, root_cause |-> root_cause,
     contributing_factors |-> factors,
     recommendations |-> recommendations, email_draft |-> email_draft]

Raised(exception) ==
    [kind |-> "raised", via |-> exception,
     summary |-> <<>>, root_cause |-> <<>>, contributing_factors |-> <<>>,
     recommendations |-> <<>>, email_draft |-> <<>>]

\* Lines 344-352.
fallback_response ==
    RCAResponse("fallback", FALLBACK_SUMMARY, FALLBACK_ROOT_CAUSE,
                <<FALLBACK_FACTOR>>, <<FALLBACK_RECOMMENDATION>>,
                FALLBACK_EMAIL_DRAFT)

\* dict.get(key): None for a missing key.
dict_get_no_default(analysis, key, default) ==
    IF key \in DOMAIN analysis.v THEN analysis.v[key] ELSE PyNone

\* dict.get(key, default)
dict_get(analysis, key, default) ==
    IF key \in DOMAIN analysis.v THEN analysis.v[key] ELSE default

\* Lines 330-338 for a decoded value that is a dict.
parsed_response(analysis, pydantic_coerces) ==
    LET summary == dict_get(analysis, KEY_SUMMARY, PyStr(DEFAULT_SUMMARY))
        root_cause == dict_get(analysis, KEY_ROOT_CAUSE, PyStr(DEFAULT_ROOT_CAUSE))
        factors == dict_get(analysis, KEY_CONTRIBUTING_FACTORS, PyList(<<>>))
        recs == dict_get(analysis, KEY_RECOMMENDATIONS, PyList(<<>>))
        email == dict_get(analysis, KEY_EMAIL_DRAFT, PyStr(DEFAULT_EMAIL_DRAFT))
    IN  IF /\ valid_str(summary, pydantic_coerces)
           /\ valid_str(root_cause, pydantic_coerces)
           /\ valid_str_list(factors, pydantic_coerces)
           /\ valid_str_list(recs, pydantic_coerces)
           /\ valid_str(email, pydantic_coerces)
        THEN RCAResponse("parsed", as_str(summary), as_str(root_cause),
                         as_str_list(factors), as_str_list(recs), as_str(email))
        ELSE Raised("ValidationError")

\* The same without the except clause of line 340.
response_for_no_fallback(analysis, pydantic_coerces) ==
    IF ~analysis.ok THEN Raised("JSONDecodeError")
    ELSE IF analysis.val.t # "dict" THEN Raised("AttributeError")
    ELSE parsed_response(analysis.val, pydantic_coerces)

\* Lines 328-352, after json.loads: JSONDecodeError gives the fallback; a
\* decoded value that is not a dict has no get, AttributeError at line 332.
response_for(analysis, pydantic_coerces) ==
    IF ~analysis.ok THEN fallback_response
    ELSE IF analysis.val.t # "dict" THEN Raised("AttributeError")
    ELSE parsed_response(analysis.val, pydantic_coerces)

\* Lines 308-352: the reply text to the result.
normalize(content, pydantic_coerces) ==
    response_for(json_loads(clean_content(content)), pydantic_coerces)

(***************************************************************************)
(* The data store.  A row is a record over the columns the code reads; a   *)
(* column a table does not have is "".  valid says whether the row has     *)
(* every required field of its pydantic class (Incident, Span, Artifact,   *)
(* lines 34-65), i.e. whether building the Incident, Span or Artifact from it succeeds.  The tables   *)
(* are written by an upstream process and only read here.                  *)
(***************************************************************************)

\* Bounds of the model: span rows of the requested order, list elements and
\* padding characters of a generated reply.
MaxSpans == 2
MaxList == 2
MaxPad == 1

Row(incident_id, order_id, span_id, args_digest, result_digest, digest, valid) ==
    [incident_id |-> incident_id, order_id |-> order_id, span_id |-> span_id,
     args_digest |-> args_digest, result_digest |-> result_digest,
     digest |-> digest, valid |-> valid]

IncidentRow(incident_id, order_id, valid) ==
    Row(incident_id, order_id, "", "", "", "", valid)
SpanRow(span_id, order_id, args_digest, result_digest, valid) ==
    Row("", order_id, span_id, args_digest, result_digest, "", valid)
ArtifactRow(digest, valid) == Row("", "", "", "", "", digest, valid)

\* The incidents table: two incidents of two orders, a row that lacks a
\* required field, and a second row with the identifier of the first (no
\* table definition makes incident_id unique).
IncidentsTable ==
    <<IncidentRow("inc-1", "ord-1", TRUE),
      IncidentRow("inc-2", "ord-2", TRUE),
      IncidentRow("inc-3", "ord-1", FALSE),
      IncidentRow("inc-1", "ord-2", TRUE)>>

\* The identifiers a request may name: inc-9 has no row.
IncidentIds == {"inc-1", "inc-2", "inc-3", "inc-9"}

\* The shapes of a span of ord-1: <<args_digest, result_digest, valid>>.
SpanShapes ==
    {<<"d1", "d2", TRUE>>, <<"d2", "d3", TRUE>>, <<"d2", "d2", TRUE>>,
     <<"d1", "d1", FALSE>>}

RECURSIVE SeqsUpTo(_, _)
SeqsUpTo(S, n) ==
    IF n = 0 THEN {<<>>}
    ELSE LET shorter == SeqsUpTo(S, n - 1)
         IN  shorter \cup {Append(q, x) : q \in {p \in shorter : Len(p) = n - 1}, x \in S}

SpanIds == <<"s1", "s2", "s3", "s4">>

\* The spans tables: up to MaxSpans spans of ord-1, then one span of ord-2.
SpansTables ==
    {[k \in 1..Len(shapes) |->
         SpanRow(SpanIds[k], "ord-1", shapes[k][1], shapes[k][2], shapes[k][3])]
       \o <<SpanRow("s9", "ord-2", "d3", "d3", TRUE)>> :
     shapes \in SeqsUpTo(SpanShapes, MaxSpans)}

\* The artifacts tables: every digest stored; d2 not stored; d3 stored as a row
\* that lacks a required field.
ArtifactsTables ==
    {<<ArtifactRow("d1", TRUE), ArtifactRow("d2", TRUE), ArtifactRow("d3", TRUE)>>,
     <<ArtifactRow("d1", TRUE), ArtifactRow("d3", TRUE)>>,
     <<ArtifactRow("d1", TRUE), ArtifactRow("d2", TRUE), ArtifactRow("d3", FALSE)>>}

Databases ==
    [incidents : {IncidentsTable}, spans : SpansTables, artifacts : ArtifactsTables]

VARIABLES
    db,                \* the store's tables
    coerce,            \* whether the installed pydantic coerces numbers to str
    endpoint,          \* the handler this request runs
    incident_id,       \* the request's incident identifier
    pc,                \* where the request is: the await it is about to make
    incident,          \* get_incident_data: incident
    spans_list,        \* get_incident_data: spans_list
    artifact_digests,  \* get_incident_data: artifact_digests
    remaining,         \* the digests the loop of line 213 has not visited yet
    artifacts_list,    \* get_incident_data: artifacts_list
    aggregate,         \* what get_incident_data returned
    calls,             \* the outbound requests sent so far, in order
    last,              \* the latest gateway call: its outcome and its return
    llm,               \* the LLM exchange of analyze_with_groq
    rca,               \* what the normalisation block ended with
    response,          \* the HTTP response of the request
    env,               \* the process environment after load_dotenv()
    PORT,              \* the module global PORT
    health,            \* the body health_check returns
    filters_arg,       \* get_supabase_data: filters
    url,               \* get_supabase_data: url
    parked             \* the locals of a second request, suspended at an await

vars ==
    <<db, coerce, endpoint, incident_id, pc, incident, spans_list,
      artifact_digests, remaining, artifacts_list, aggregate, calls, last, llm,
      rca, response, env, PORT, health, filters_arg, url, parked>>

\* The variables of process start and of the health probe, and those of the
\* URL a gateway call builds.
boot_vars == <<env, PORT, health>>
url_vars == <<filters_arg, url>>

(***************************************************************************)
(* get_supabase_data, lines 164-189.                                       *)
(***************************************************************************)

\* How one HTTP exchange with the store can end: no response (a network
\* error), a non-2xx status, a 2xx body that is not JSON, a 2xx JSON array of
\* rows, a 2xx JSON object with some member (not an array).
GatewayFailures == {"network_error", "status_error", "bad_json"}
GatewayOutcomes == GatewayFailures \cup {"rows", "json_object"}

\* Lines 174-180: the clauses of the query string, one per filter whose value
\* is not None; filters is the mapping as a sequence of <<field, value>>.
NoneValue == "None"
query_params(filters) == SelectSeq(filters, LAMBDA f : f[2] # NoneValue)

\* The store's answer to GET table?field=eq.value&...: the rows that match
\* every clause, in table order.
store_select(table, clauses) ==
    SelectSeq(db[table], LAMBDA r : \A k \in 1..Len(clauses) : r[clauses[k][1]] = clauses[k][2])

\* What a call gives its caller: type is the Python type of the returned
\* value ("list", or "dict" for a JSON object), rows its elements.
Returned(type, rows) == [raised |-> FALSE, type |-> type, rows |-> rows]
RaisedToCaller == [raised |-> TRUE, type |-> "list", rows |-> <<>>]

\* Lines 182-189: every exception of the exchange is caught and [] returned;
\* otherwise the decoded body is returned as it is.
get_supabase_data_unguarded(table, filters, outcome) ==
    IF outcome \in GatewayFailures THEN RaisedToCaller
    ELSE IF outcome = "json_object" THEN Returned("dict", <<>>)
    ELSE Returned("list", store_select(table, query_params(filters)))

get_supabase_data(table, filters, outcome) ==
    IF outcome \in GatewayFailures THEN Returned("list", <<>>)
    ELSE IF outcome = "json_object" THEN Returned("dict", <<>>)
    ELSE Returned("list", store_select(table, query_params(filters)))

\* An entry of calls.
StoreCall(table, field, value, outcome) ==
    [to |-> "store", table |-> table, field |-> field, value |-> value,
     outcome |-> outcome]
LlmCall == [to |-> "llm", table |-> "", field |-> "", value |-> "", outcome |-> ""]

\* Lines 183-184 and 293-299: the HTTP requests one exchange sends, whether it
\* fails or not.  There is one client.get, one client.post, and no loop
\* around either.
requests_sent_retry(failed) == IF failed THEN 2 ELSE 1

requests_sent(failed) == 1

\* calls after an exchange: one entry for each request sent.
Sent(call, failed) == calls \o [k \in 1..requests_sent(failed) |-> call]

(***************************************************************************)
(* get_incident_data, lines 191-226, split at its awaits: the incident     *)
(* fetch, the spans fetch, one artifact fetch per digest.  Any exception   *)
(* inside it is caught at line 224 and None returned.                      *)
(***************************************************************************)

NoRow == Row("", "", "", "", "", "", FALSE)

\* IncidentWithRelations, lines 67-70; None is the record with present = FALSE.
IncidentWithRelations(inc, spans, artifacts) ==
    [present |-> TRUE, incident |-> inc, spans |-> spans, artifacts |-> artifacts]
None ==
    [present |-> FALSE, incident |-> NoRow, spans |-> <<>>, artifacts |-> <<>>]

\* Lines 196-200 run through: the call gave a list, the list is not empty and
\* its first row builds an Incident.  (A dict has no element 0: KeyError.)
incident_found(r) ==
    /\ ~r.raised
    /\ r.type = "list"
    /\ r.rows # <<>>
    /\ r.rows[1].valid

\* Line 203: the filter of the spans fetch.
span_filters_unfiltered(inc) == <<>>

span_filters(inc) == <<<<"order_id", inc.order_id>>>>

\* Line 204 runs through: every row builds a Span.  (Iterating a dict gives its
\* keys, which build no Span: TypeError.)
spans_built(r) ==
    /\ ~r.raised
    /\ r.type = "list"
    /\ \A k \in 1..Len(r.rows) : r.rows[k].valid

\* Lines 207-210: the set of digests the spans reference.
referenced_digests_args_only(spans) ==
    {spans[k].args_digest : k \in 1..Len(spans)}

referenced_digests(spans) ==
    {spans[k].args_digest : k \in 1..Len(spans)}
        \cup {spans[k].result_digest : k \in 1..Len(spans)}

\* Every enumeration of a finite set, each element once.
Orderings(S) ==
    {q \in [1..Cardinality(S) -> S] : \A i, j \in DOMAIN q : i # j => q[i] # q[j]}

\* The digests as a list, a span's two after the previous span's.
RECURSIVE digest_list(_)
digest_list(spans) ==
    IF spans = <<>> THEN <<>>
    ELSE <<Head(spans).args_digest, Head(spans).result_digest>>
             \o digest_list(Tail(spans))

digest_orders_list(spans) == {digest_list(spans)}

\* Line 213: the orders in which the loop may visit artifact_digests.  The
\* iteration order of a set of str is not fixed by the language.
digest_orders(spans) == Orderings(referenced_digests(spans))

\* Lines 214-216 run through: no row, or a first row that builds an Artifact.
artifact_step_ok_requires_row(r) ==
    /\ ~r.raised
    /\ r.type = "list"
    /\ r.rows # <<>>
    /\ r.rows[1].valid

artifact_step_ok(r) ==
    /\ ~r.raised
    /\ r.type = "list"
    /\ (r.rows # <<>> => r.rows[1].valid)

\* Line 213: the loop ends when no digest is left to visit.
loop_finished_early(rest) == TRUE

loop_finished(rest) == rest = <<>>

\* Line 213: the for loop goes on with the digests after the one fetched.
remaining_after_stays(rest) == rest

remaining_after(rest) == Tail(rest)

\* Lines 215-216: the list after one digest's fetch.
artifacts_appended(list, r) ==
    IF r.rows # <<>> THEN Append(list, r.rows[1]) ELSE list

(***************************************************************************)
(* The handlers after get_incident_data has returned.                      *)
(***************************************************************************)

\* A response: its status, the kind of its body, and the rows a body of rows
\* carries.
RespondRows(status, body, rows) == [status |-> status, body |-> body, rows |-> rows]
Respond(status, body) == RespondRows(status, body, <<>>)
NoResponse == Respond(0, "none")

\* Lines 414-416 and 417-418: 404 for None, else the aggregate.
get_incident_full_always_200(incident_data) == Respond(200, "aggregate")

get_incident_full(incident_data) ==
    IF ~incident_data.present THEN Respond(404, "detail")
    ELSE Respond(200, "aggregate")

\* Line 430 of analyze_incident: whether the analysis goes on.
incident_data_found_always(incident_data) == TRUE

incident_data_found(incident_data) == incident_data.present

\* get_incident_data returns incident_data to the handler that awaited it:
\* get_incident_full answers; analyze_incident answers 404 (lines 430-432,
\* 443-444) or goes on to analyze_with_groq (line 438).
ReturnToHandler(incident_data) ==
    /\ aggregate' = incident_data
    /\ IF endpoint = "full"
       THEN response' = get_incident_full(incident_data) /\ pc' = "done"
       ELSE IF incident_data_found(incident_data)
            THEN response' = response /\ pc' = "analyze_with_groq"
            ELSE response' = Respond(404, "detail") /\ pc' = "done"

\* Lines 195-200.
FetchIncident ==
    /\ pc = "get_incident_data"
    /\ \E outcome \in GatewayOutcomes :
         LET filters == <<<<"incident_id", incident_id>>>>
             r == get_supabase_data("incidents", filters, outcome)
         IN  /\ last' = [outcome |-> outcome, ret |-> r]
             /\ calls' = Sent(StoreCall("incidents", "incident_id", incident_id,
                                        outcome), outcome \in GatewayFailures)
             /\ IF incident_found(r)
                THEN /\ incident' = r.rows[1]
                     /\ pc' = "fetch_spans"
                     /\ UNCHANGED <<aggregate, response>>
                ELSE /\ ReturnToHandler(None)
                     /\ UNCHANGED incident
    /\ UNCHANGED <<db, coerce, endpoint, incident_id, spans_list,
                   artifact_digests, remaining, artifacts_list, llm, rca>>
    /\ UNCHANGED <<boot_vars, url_vars, parked>>

\* Lines 203-212, and line 218 when no digest is referenced.
FetchSpans ==
    /\ pc = "fetch_spans"
    /\ \E outcome \in GatewayOutcomes :
         LET filters == span_filters(incident)
             r == get_supabase_data("spans", filters, outcome)
         IN  /\ last' = [outcome |-> outcome, ret |-> r]
             /\ calls' = Sent(StoreCall("spans", "order_id", incident.order_id,
                                        outcome), outcome \in GatewayFailures)
             /\ IF ~spans_built(r)
                THEN /\ ReturnToHandler(None)
                     /\ UNCHANGED <<spans_list, artifact_digests, remaining>>
                ELSE /\ spans_list' = r.rows
                     /\ artifact_digests' = referenced_digests(r.rows)
                     /\ \E order \in digest_orders(r.rows) : remaining' = order
                     /\ IF loop_finished(remaining')
                        THEN ReturnToHandler(
                                 IncidentWithRelations(incident, r.rows, <<>>))
                        ELSE /\ pc' = "fetch_artifacts"
                             /\ UNCHANGED <<aggregate, response>>
    /\ UNCHANGED <<db, coerce, endpoint, incident_id, incident, artifacts_list,
                   llm, rca>>
    /\ UNCHANGED <<boot_vars, url_vars, parked>>

\* Lines 213-216 for one digest, and line 218 after the last one.
FetchArtifact ==
    /\ pc = "fetch_artifacts"
    /\ \E outcome \in GatewayOutcomes :
         LET digest == Head(remaining)
             r == get_supabase_data("artifacts", <<<<"digest", digest>>>>, outcome)
             list == artifacts_appended(artifacts_list, r)
         IN  /\ last' = [outcome |-> outcome, ret |-> r]
             /\ calls' = Sent(StoreCall("artifacts", "digest", digest, outcome),
                              outcome \in GatewayFailures)
             /\ IF ~artifact_step_ok(r)
                THEN /\ ReturnToHandler(None)
                     /\ UNCHANGED <<remaining, artifacts_list>>
                ELSE /\ artifacts_list' = list
                     /\ remaining' = remaining_after(remaining)
                     /\ IF loop_finished(remaining')
                        THEN ReturnToHandler(
                                 IncidentWithRelations(incident, spans_list, list))
                        ELSE /\ pc' = "fetch_artifacts"
                             /\ UNCHANGED <<aggregate, response>>
    /\ UNCHANGED <<db, coerce, endpoint, incident_id, incident, spans_list,
                   artifact_digests, llm, rca>>
    /\ UNCHANGED <<boot_vars, url_vars, parked>>

(***************************************************************************)
(* get_incident, lines 396-407.                                            *)
(***************************************************************************)

\* Lines 400-403 and the handlers of 404-407: 404 for an empty result, else
\* its first element.  A JSON object has no element 0: the KeyError reaches
\* line 406 and the degraded body is returned.
get_incident_whole_list(incidents) ==
    IF incidents.raised \/ incidents.type # "list" THEN Respond(200, "degraded")
    ELSE IF incidents.rows = <<>> THEN Respond(404, "detail")
    ELSE RespondRows(200, "list", incidents.rows)

get_incident(incidents) ==
    IF incidents.raised \/ incidents.type # "list" THEN Respond(200, "degraded")
    ELSE IF incidents.rows = <<>> THEN Respond(404, "detail")
    ELSE RespondRows(200, "row", <<incidents.rows[1]>>)

GetIncident ==
    /\ pc = "get_incident"
    /\ \E outcome \in GatewayOutcomes :
         LET r == get_supabase_data("incidents", <<<<"incident_id", incident_id>>>>,
                                    outcome)
         IN  /\ last' = [outcome |-> outcome, ret |-> r]
             /\ calls' = Sent(StoreCall("incidents", "incident_id", incident_id,
                                        outcome), outcome \in GatewayFailures)
             /\ response' = get_incident(r)
    /\ pc' = "done"
    /\ UNCHANGED <<db, coerce, endpoint, incident_id, incident, spans_list,
                   artifact_digests, remaining, artifacts_list, aggregate, llm,
                   rca>>
    /\ UNCHANGED <<boot_vars, url_vars, parked>>

(***************************************************************************)
(* get_incidents, get_spans and get_artifacts, lines 387-394 and 449-465.  *)
(***************************************************************************)

\* The endpoints that return a table, named by the table.
ListEndpoints == {"incidents", "spans", "artifacts"}

\* Lines 390-394: what get_supabase_data returned is the body, a JSON array
\* or whatever JSON value the store sent; an exception would give the
\* degraded body.
list_response_empty_degrades(r) ==
    IF r.raised \/ r.rows = <<>> THEN Respond(200, "degraded")
    ELSE IF r.type = "list" THEN RespondRows(200, "list", r.rows)
    ELSE Respond(200, "object")

list_response(r) ==
    IF r.raised THEN Respond(200, "degraded")
    ELSE IF r.type = "list" THEN RespondRows(200, "list", r.rows)
    ELSE Respond(200, "object")

ListTable ==
    /\ pc = "list_table"
    /\ \E outcome \in GatewayOutcomes :
         LET r == get_supabase_data(endpoint, <<>>, outcome)
         IN  /\ last' = [outcome |-> outcome, ret |-> r]
             /\ calls' = Sent(StoreCall(endpoint, "", "", outcome),
                              outcome \in GatewayFailures)
             /\ response' = list_response(r)
    /\ pc' = "done"
    /\ UNCHANGED <<db, coerce, endpoint, incident_id, incident, spans_list,
                   artifact_digests, remaining, artifacts_list, aggregate, llm,
                   rca>>
    /\ UNCHANGED <<boot_vars, url_vars, parked>>

(***************************************************************************)
(* The reply texts the LLM is modelled to send: JSON objects built from    *)
(* present, absent and ill-typed fields, other JSON values, texts that are *)
(* not JSON, each bare or inside markdown fences.                          *)
(***************************************************************************)

Quote(chars) == <<"\"">> \o chars \o <<"\"">>

RECURSIVE Join(_, _)
Join(parts, sep) ==
    IF parts = <<>> THEN <<>>
    ELSE IF Len(parts) = 1 THEN parts[1]
    ELSE parts[1] \o sep \o Join(Tail(parts), sep)

ArrayText(items) == <<"[">> \o Join(items, <<",">>) \o <<"]">>
ObjectText(members) == <<"{">> \o Join(members, <<",">>) \o <<"}">>
Member(key, value_text) == Quote(key) \o <<":">> \o value_text

\* The elements a generated list draws on, in order.
ListElements == <<"a", "b", "c", "d">>
StringList(n) == ArrayText([k \in 1..n |-> Quote(<<ListElements[k]>>)])

\* Each field of a generated object: absent, present and well typed, or present
\* and ill typed (null, a number, a string for a list, a list holding a number).
SummaryOptions ==
    {<<>>, <<Member(KEY_SUMMARY, Quote(<<"s">>))>>,
     <<Member(KEY_SUMMARY, LIT_NULL)>>, <<Member(KEY_SUMMARY, <<"1">>)>>}
RootCauseOptions == {<<>>, <<Member(KEY_ROOT_CAUSE, Quote(<<"r">>))>>}
FactorsOptions ==
    {<<>>, <<Member(KEY_CONTRIBUTING_FACTORS, Quote(<<"a">>))>>,
     <<Member(KEY_CONTRIBUTING_FACTORS, ArrayText(<<<<"1">>>>))>>}
        \cup {<<Member(KEY_CONTRIBUTING_FACTORS, StringList(n))>> : n \in 0..MaxList}
TailOptions ==
    {<<>>, <<Member(KEY_RECOMMENDATIONS, StringList(1)),
             Member(KEY_EMAIL_DRAFT, Quote(<<"e">>))>>}

GeneratedObjects ==
    {ObjectText(a \o b \o c \o d) :
       a \in SummaryOptions, b \in RootCauseOptions, c \in FactorsOptions,
       d \in TailOptions}

\* Prose (the example of the spec).
TEXT_PROSE ==
    <<"n", "o", "t", " ", "j", "s", "o", "n", " ", "a", "t", " ", "a", "l",
      "l">>
\* Nothing.
TEXT_EMPTY == <<>>
\* An object cut short.
TEXT_TRUNCATED ==
    <<"{", "\"", "s", "u", "m", "m", "a", "r", "y", "\"", ":">>
\* A JSON array.
TEXT_ARRAY ==
    <<"[", "\"", "a", "\"", "]">>
\* An empty JSON array.
TEXT_EMPTY_ARRAY ==
    <<"[", "]">>
\* A JSON string.
TEXT_STRING ==
    <<"\"", "x", "\"">>
\* A JSON number.
TEXT_NUMBER ==
    <<"1">>
\* JSON null.
TEXT_NULL ==
    <<"n", "u", "l", "l">>
\* A JSON string that holds one fence marker.
TEXT_FENCE_STRING ==
    <<"\"", BQ, BQ, BQ, "\"">>
\* An object whose summary holds one fence marker.
TEXT_OBJECT_ONE_FENCE ==
    <<"{", "\"", "s", "u", "m", "m", "a", "r", "y", "\"", ":", "\"", BQ, BQ,
      BQ, "\"", "}">>
\* An object whose summary holds two fence markers.
TEXT_OBJECT_TWO_FENCES ==
    <<"{", "\"", "s", "u", "m", "m", "a", "r", "y", "\"", ":", "\"", BQ, BQ,
      BQ, "a", BQ, BQ, BQ, "\"", "}">>
\* An object whose summary holds a json-tagged fence marker.
TEXT_OBJECT_JSON_FENCE ==
    <<"{", "\"", "s", "u", "m", "m", "a", "r", "y", "\"", ":", "\"", BQ, BQ,
      BQ, "j", "s", "o", "n", "\"", "}">>
\* An object that repeats a key.
TEXT_OBJECT_REPEATED_KEY ==
    <<"{", "\"", "s", "u", "m", "m", "a", "r", "y", "\"", ":", "\"", "s",
      "\"", ",", "\"", "s", "u", "m", "m", "a", "r", "y", "\"", ":", "\"",
      "t", "\"", "}">>
\* An object with whitespace between its tokens.
TEXT_OBJECT_SPACED ==
    <<"{", " ", "\"", "s", "u", "m", "m", "a", "r", "y", "\"", " ", ":", " ",
      "\"", "s", "\"", " ", ",", " ", "\"", "r", "o", "o", "t", "_", "c", "a",
      "u", "s", "e", "\"", " ", ":", " ", "\"", "r", "\"", " ", "}">>

\* The texts that are a JSON object.
ObjectTexts ==
    GeneratedObjects
        \cup {TEXT_OBJECT_ONE_FENCE, TEXT_OBJECT_TWO_FENCES, TEXT_OBJECT_JSON_FENCE,
              TEXT_OBJECT_REPEATED_KEY, TEXT_OBJECT_SPACED}

BodyTexts ==
    ObjectTexts
        \cup {TEXT_PROSE, TEXT_EMPTY, TEXT_TRUNCATED, TEXT_ARRAY, TEXT_EMPTY_ARRAY,
              TEXT_STRING, TEXT_NUMBER, TEXT_NULL, TEXT_FENCE_STRING}

\* n whitespace characters.
Pad(n) == [k \in 1..n |-> IF k % 2 = 1 THEN "\n" ELSE " "]

\* A body inside a json-tagged fence, inside a bare fence, or as it is, with n
\* whitespace characters before and after.
JsonFenced(body, n) ==
    Pad(n) \o FENCE_JSON \o <<"\n">> \o body \o <<"\n">> \o FENCE \o Pad(n)
BareFenced(body, n) ==
    Pad(n) \o FENCE \o <<"\n">> \o body \o <<"\n">> \o FENCE \o Pad(n)
Unfenced(body, n) == Pad(n) \o body \o Pad(n)

\* Replies whose fences do not pair up: an opening fence and no closing one, a
\* closing one only, a second fenced block after the first, a bare fence
\* closed by a json-tagged marker.
OpenOnlyJson(body) == FENCE_JSON \o <<"\n">> \o body
OpenOnlyBare(body) == FENCE \o <<"\n">> \o body
CloseOnly(body) == body \o <<"\n">> \o FENCE
TwoBlocks(body) ==
    JsonFenced(body, 0) \o <<"\n">> \o FENCE \o <<"\n", "x", "\n">> \o FENCE
TagLast(body) == FENCE \o <<"\n">> \o body \o <<"\n">> \o FENCE_JSON

Replies ==
    UNION {{JsonFenced(b, n), BareFenced(b, n), Unfenced(b, n)} :
             b \in BodyTexts, n \in 0..MaxPad}
        \cup UNION {{OpenOnlyJson(b), OpenOnlyBare(b), CloseOnly(b), TwoBlocks(b),
                     TagLast(b)} : b \in BodyTexts}

\* The replies a whole request is run against.
FullObject ==
    ObjectText(<<Member(KEY_SUMMARY, Quote(<<"s">>)),
                 Member(KEY_ROOT_CAUSE, Quote(<<"r">>)),
                 Member(KEY_CONTRIBUTING_FACTORS, StringList(MaxList)),
                 Member(KEY_RECOMMENDATIONS, StringList(1)),
                 Member(KEY_EMAIL_DRAFT, Quote(<<"e">>))>>)

ProbeReplies == {JsonFenced(FullObject, 0), TEXT_PROSE, TEXT_EMPTY_ARRAY}

(***************************************************************************)
(* analyze_with_groq, lines 228-356.                                       *)
(***************************************************************************)

\* How the one POST to the LLM can end: no response (connection error or
\* timeout), a non-2xx status, or a 2xx response whose body is not JSON, is
\* JSON without choices[0].message.content, has content null, or has a text.
LlmTransportFailures == {"connect_error", "timeout", "status_error"}
LlmBodies == {"not_json", "no_choices", "null_content", "text"}

Exchange(outcome, body, content) ==
    [outcome |-> outcome, body |-> body, content |-> content]
NoExchange == Exchange("none", "none", <<>>)

LlmExchanges(replies) ==
    {Exchange(o, "none", <<>>) : o \in LlmTransportFailures}
        \cup {Exchange("ok", b, <<>>) : b \in LlmBodies \ {"text"}}
        \cup {Exchange("ok", "text", c) : c \in replies}

NoRca ==
    [kind |-> "none", via |-> "none",
     summary |-> <<>>, root_cause |-> <<>>, contributing_factors |-> <<>>,
     recommendations |-> <<>>, email_draft |-> <<>>]

\* Lines 277-356: what the call ends with.  raise_for_status, response.json(),
\* result["choices"][0]["message"]["content"], content[:200] and the inner
\* block's non-JSONDecodeError exceptions all reach line 354, which raises
\* HTTPException(500).
groq_result_returns_any(r) == [raised |-> FALSE, rca |-> r]

groq_result(r) == [raised |-> r.kind = "raised", rca |-> r]

analyze_with_groq(exchange, pydantic_coerces) ==
    IF exchange.outcome # "ok" THEN [raised |-> TRUE, rca |-> NoRca]
    ELSE IF exchange.body # "text" THEN [raised |-> TRUE, rca |-> NoRca]
    ELSE groq_result(normalize(exchange.content, pydantic_coerces))

\* Lines 438-447 of analyze_incident (and the direct call of
\* src/test_simple_backend.py): the result is returned; the HTTPException of
\* line 356 is re-raised at lines 443-444 and answered as a 500 whose detail
\* is "LLM analysis failed: " and the text of the exception.  Line 445 would
\* turn any other exception into the degraded body.
analyze_incident_degrades(r) ==
    IF r.raised THEN Respond(200, "degraded") ELSE Respond(200, "rca")

analyze_incident(r) ==
    IF r.raised THEN Respond(500, "detail") ELSE Respond(200, "rca")

LlmReturns(exchange, r) ==
    /\ llm' = exchange
    /\ rca' = r.rca
    /\ response' = analyze_incident(r)
    /\ calls' = Sent(LlmCall, exchange.outcome # "ok")

AnalyzeWithGroq(replies) ==
    /\ pc = "analyze_with_groq"
    /\ \E exchange \in LlmExchanges(replies) :
         LlmReturns(exchange, analyze_with_groq(exchange, coerce))
    /\ pc' = "done"
    /\ UNCHANGED <<db, coerce, endpoint, incident_id, incident, spans_list,
                   artifact_digests, remaining, artifacts_list, aggregate, last>>
    /\ UNCHANGED <<boot_vars, url_vars, parked>>

Analyze == AnalyzeWithGroq(ProbeReplies)
AnalyzeDirect == AnalyzeWithGroq(Replies)

(***************************************************************************)
(* The URL of a gateway call, lines 171-180, as text.                      *)
(***************************************************************************)

\* The most entries of a filter mapping.
MaxFilters == 2

\* A filter value: None, or a str.
FilterValue(none, text) == [none |-> none, text |-> text]
FilterNone == FilterValue(TRUE, <<>>)
FilterValues ==
    {FilterNone, FilterValue(FALSE, <<"a">>), FilterValue(FALSE, <<"b", "-", "1">>),
     FilterValue(FALSE, <<"a", "&", "b">>)}

\* The fields the callers filter on (lines 195, 203, 214, 400).
FIELD_INCIDENT_ID == <<"i", "n", "c", "i", "d", "e", "n", "t", "_", "i", "d">>
FIELD_ORDER_ID == <<"o", "r", "d", "e", "r", "_", "i", "d">>
FIELD_DIGEST == <<"d", "i", "g", "e", "s", "t">>
FilterFields == {FIELD_INCIDENT_ID, FIELD_ORDER_ID, FIELD_DIGEST}

TABLE_INCIDENTS == <<"i", "n", "c", "i", "d", "e", "n", "t", "s">>
TABLE_SPANS == <<"s", "p", "a", "n", "s">>

\* The arguments of a call: the table, and filters, which is None (given is
\* FALSE) or a mapping, its entries <<field, value>> in the mapping's order,
\* no field twice.
Arguments(table, given, items) == [table |-> table, given |-> given, items |-> items]

FilterMappings ==
    {q \in SeqsUpTo(FilterFields \X FilterValues, MaxFilters) :
        \A i, j \in 1..Len(q) : i # j => q[i][1] # q[j][1]}

GatewayArguments ==
    {Arguments(t, TRUE, q) : t \in {TABLE_INCIDENTS, TABLE_SPANS}, q \in FilterMappings}
        \cup {Arguments(t, FALSE, <<>>) : t \in {TABLE_INCIDENTS, TABLE_SPANS}}

\* SUPABASE_URL, and the path of line 171.
SUPABASE_URL_TEXT == <<"h", "t", "t", "p", ":", "/", "/", "d", "b">>
REST_PATH == <<"/", "r", "e", "s", "t", "/", "v", "1", "/">>

\* Line 178: f"{key}=eq.{value}".
clause_text(key, value) == key \o <<"=", "e", "q", ".">> \o value.text

\* Lines 175-178: the clauses of the entries whose value is not None.
query_params_text_keeps_none(items) ==
    [k \in 1..Len(items) |-> clause_text(items[k][1], items[k][2])]

query_params_text(items) ==
    LET kept == SelectSeq(items, LAMBDA item : ~item[2].none)
    IN  [k \in 1..Len(kept) |-> clause_text(kept[k][1], kept[k][2])]

\* Lines 179-180.
with_query(base, params) ==
    IF params # <<>> THEN base \o <<"?">> \o Join(params, <<"&">>) ELSE base

\* Lines 171-180: `if filters` is false for None and for an empty mapping.
build_url(args) ==
    LET base == SUPABASE_URL_TEXT \o REST_PATH \o args.table
    IN  IF args.given /\ args.items # <<>>
        THEN with_query(base, query_params_text(args.items))
        ELSE base

\* get_supabase_data up to the request of line 184.
BuildUrl ==
    /\ pc = "get_supabase_data"
    /\ url' = build_url(filters_arg)
    /\ pc' = "client_get"
    /\ UNCHANGED <<db, coerce, endpoint, incident_id, incident, spans_list,
                   artifact_digests, remaining, artifacts_list, aggregate, calls,
                   last, llm, rca, response, boot_vars, filters_arg, parked>>

(***************************************************************************)
(* Process start, lines 18-29 and the startup event of lines 467-483.      *)
(***************************************************************************)

\* What os.environ.get gives for a required name: None when it is not set,
\* the empty string, or a value.
EnvValues == {"None", "", "set"}

\* The PORT entry of the environment: not set, or a text.
PortEntry(present, text) == [present |-> present, text |-> text]
PortUnset == PortEntry(FALSE, <<>>)
PortEntries ==
    {PortUnset, PortEntry(TRUE, <<"9", "0">>), PortEntry(TRUE, <<" ", "7">>),
     PortEntry(TRUE, <<>>), PortEntry(TRUE, <<"x", "8">>)}

Environments ==
    [SUPABASE_URL : EnvValues, SUPABASE_KEY : EnvValues, GROQ_API_KEY : EnvValues,
     PORT : PortEntries]

\* int(text) of line 25: surrounding whitespace is dropped, then a sign may
\* come, then digits only, at least one; anything else is a ValueError.
Digits == <<"0", "1", "2", "3", "4", "5", "6", "7", "8", "9">>
DigitValue(c) == (CHOOSE n \in 1..10 : Digits[n] = c) - 1
IsDigit(c) == \E n \in 1..10 : Digits[n] = c

RECURSIVE digits_value(_)
digits_value(text) ==
    IF text = <<>> THEN 0
    ELSE 10 * digits_value(SubSeq(text, 1, Len(text) - 1)) + DigitValue(text[Len(text)])

int_unsigned(text) ==
    IF text # <<>> /\ \A k \in 1..Len(text) : IsDigit(text[k])
    THEN [ok |-> TRUE, val |-> digits_value(text)]
    ELSE [ok |-> FALSE, val |-> 0]

py_int(text) ==
    LET t == strip(text)
    IN  IF t # <<>> /\ t[1] = "-"
        THEN [ok |-> int_unsigned(Tail(t)).ok, val |-> 0 - int_unsigned(Tail(t)).val]
        ELSE IF t # <<>> /\ t[1] = "+" THEN int_unsigned(Tail(t))
        ELSE int_unsigned(t)

\* Line 25: int(os.environ.get("PORT", 8000)).
DEFAULT_PORT == 8000
port_of(entry) ==
    IF entry.present THEN py_int(entry.text) ELSE [ok |-> TRUE, val |-> DEFAULT_PORT]

\* The truth value of a str or None.
Truthy(value) == value \notin {"None", ""}

\* Line 28: all([SUPABASE_URL, SUPABASE_KEY, GROQ_API_KEY]).
required_configured_not_none(e) ==
    /\ e.SUPABASE_URL # "None"
    /\ e.SUPABASE_KEY # "None"
    /\ e.GROQ_API_KEY # "None"

required_configured(e) ==
    /\ Truthy(e.SUPABASE_URL)
    /\ Truthy(e.SUPABASE_KEY)
    /\ Truthy(e.GROQ_API_KEY)

\* Lines 18-29 run when the module is loaded: a ValueError at line 25 or at
\* line 29 ends the process before any route exists.
LoadModule ==
    /\ pc = "import"
    /\ IF ~port_of(env.PORT).ok
       THEN pc' = "exited" /\ PORT' = PORT
       ELSE /\ PORT' = port_of(env.PORT).val
            /\ pc' = IF required_configured(env) THEN "startup_event" ELSE "exited"
    /\ UNCHANGED <<db, coerce, endpoint, incident_id, incident, spans_list,
                   artifact_digests, remaining, artifacts_list, aggregate, calls,
                   last, llm, rca, response, env, health, url_vars, parked>>

(***************************************************************************)
(* health_check and its two probes, lines 101-162.                         *)
(***************************************************************************)

\* How a probe's one HTTP exchange can end.
ProbeOutcomes == {"status_200", "status_other", "network_error", "timeout"}

\* An entry of calls for a probe: by names the caller.
ProbeCall(to, by, outcome) ==
    [to |-> to, table |-> "", field |-> by, value |-> "", outcome |-> outcome]

\* Lines 128-139 and 141-162: True for status 200, False for any other status
\* and, through the bare except, for every exception.
test_supabase_connection_unguarded(outcome) ==
    IF outcome \in {"network_error", "timeout"} THEN "raised"
    ELSE IF outcome = "status_200" THEN "True" ELSE "False"

test_supabase_connection(outcome) ==
    IF outcome = "status_200" THEN "True" ELSE "False"

test_groq_connection_unguarded(outcome) ==
    IF outcome \in {"network_error", "timeout"} THEN "raised"
    ELSE IF outcome = "status_200" THEN "True" ELSE "False"

test_groq_connection(outcome) ==
    IF outcome = "status_200" THEN "True" ELSE "False"

\* Lines 105-108 and 111-114: the value of a check, and whether its probe was
\* called.
Check(value, called) == [value |-> value, called |-> called]

supabase_check(supabase_url, supabase_key, outcome) ==
    IF Truthy(supabase_url) /\ Truthy(supabase_key)
    THEN Check(test_supabase_connection(outcome), TRUE)
    ELSE Check("not_configured", FALSE)

groq_check_always_probes(groq_api_key, outcome) ==
    Check(test_groq_connection(outcome), TRUE)

groq_check(groq_api_key, outcome) ==
    IF Truthy(groq_api_key)
    THEN Check(test_groq_connection(outcome), TRUE)
    ELSE Check("not_configured", FALSE)

\* Lines 116-126: the body returned; an exception that left a probe would be
\* caught at line 125.
HealthBody(status, supabase_healthy, groq_healthy) ==
    [status |-> status, supabase |-> supabase_healthy, groq |-> groq_healthy]

health_check(supabase_healthy, groq_healthy) ==
    IF supabase_healthy = "raised" \/ groq_healthy = "raised"
    THEN HealthBody("degraded", "none", "none")
    ELSE HealthBody("healthy", supabase_healthy, groq_healthy)

\* Lines 467-483: the startup event calls both probes and only prints.
StartupEvent ==
    /\ pc = "startup_event"
    /\ \E supabase_outcome \in ProbeOutcomes, groq_outcome \in ProbeOutcomes :
         calls' = calls \o <<ProbeCall("store", "startup_event", supabase_outcome),
                             ProbeCall("llm", "startup_event", groq_outcome)>>
    /\ pc' = "health_check"
    /\ UNCHANGED <<db, coerce, endpoint, incident_id, incident, spans_list,
                   artifact_digests, remaining, artifacts_list, aggregate, last,
                   llm, rca, response, boot_vars, url_vars, parked>>

\* Lines 104-108 of a GET /health request.
HealthSupabase ==
    /\ pc = "health_check"
    /\ \E outcome \in ProbeOutcomes :
         LET c == supabase_check(env.SUPABASE_URL, env.SUPABASE_KEY, outcome)
         IN  /\ calls' = IF c.called
                         THEN Append(calls, ProbeCall("store", "health_check", outcome))
                         ELSE calls
             /\ IF c.value = "raised"
                THEN /\ health' = health_check(c.value, "none")
                     /\ response' = Respond(200, "health")
                     /\ pc' = "done"
                ELSE /\ health' = HealthBody("none", c.value, "none")
                     /\ response' = response
                     /\ pc' = "health_groq"
    /\ UNCHANGED <<db, coerce, endpoint, incident_id, incident, spans_list,
                   artifact_digests, remaining, artifacts_list, aggregate, last,
                   llm, rca, env, PORT, url_vars, parked>>

\* Lines 110-126.
HealthGroq ==
    /\ pc = "health_groq"
    /\ \E outcome \in ProbeOutcomes :
         LET c == groq_check(env.GROQ_API_KEY, outcome)
         IN  /\ calls' = IF c.called
                         THEN Append(calls, ProbeCall("llm", "health_check", outcome))
                         ELSE calls
             /\ health' = health_check(health.supabase, c.value)
    /\ response' = Respond(200, "health")
    /\ pc' = "done"
    /\ UNCHANGED <<db, coerce, endpoint, incident_id, incident, spans_list,
                   artifact_digests, remaining, artifacts_list, aggregate, last,
                   llm, rca, env, PORT, url_vars, parked>>

(***************************************************************************)
(* The specifications.                                                     *)
(***************************************************************************)

NoCall == [outcome |-> "none", ret |-> Returned("list", <<>>)]

\* The environment of a process that serves: the three required values set.
ServingEnv ==
    [SUPABASE_URL |-> "set", SUPABASE_KEY |-> "set", GROQ_API_KEY |-> "set",
     PORT |-> PortUnset]

NoHealth == [status |-> "none", supabase |-> "none", groq |-> "none"]
NoFilters == [table |-> <<>>, given |-> FALSE, items |-> <<>>]
NoUrl == <<>>

\* The locals and the response of a request, as a coroutine holds them while
\* it is suspended.
Frame(e, id, at, inc, spans, digests, rest, artifacts, data, sent, latest, exchange, result, answer) ==
    [endpoint |-> e, incident_id |-> id, pc |-> at, incident |-> inc,
     spans_list |-> spans, artifact_digests |-> digests, remaining |-> rest,
     artifacts_list |-> artifacts, aggregate |-> data, calls |-> sent,
     last |-> latest, llm |-> exchange, rca |-> result, response |-> answer]

\* Where a handler starts.
entry_of(e) ==
    IF e = "incident" THEN "get_incident"
    ELSE IF e \in ListEndpoints THEN "list_table"
    ELSE "get_incident_data"

\* A request that has arrived and has not run yet; no second request.
ArrivedFrame(e, id) ==
    Frame(e, id, entry_of(e), NoRow, <<>>, {}, <<>>, <<>>, None, <<>>, NoCall,
          NoExchange, NoRca, NoResponse)
NoFrame == ArrivedFrame("none", "")

\* A request to GET /incidents/{id}, GET /incidents/{id}/full,
\* POST /rca/analyze, GET /incidents, GET /spans or GET /artifacts arrives.
Init ==
    /\ db \in Databases
    /\ coerce \in BOOLEAN
    /\ endpoint \in {"incident", "full", "analyze"} \cup ListEndpoints
    /\ incident_id \in IF endpoint \in ListEndpoints THEN {""} ELSE IncidentIds
    /\ pc = entry_of(endpoint)
    /\ env = ServingEnv
    /\ PORT = DEFAULT_PORT
    /\ health = NoHealth
    /\ filters_arg = NoFilters
    /\ url = NoUrl
    /\ incident = NoRow
    /\ spans_list = <<>>
    /\ artifact_digests = {}
    /\ remaining = <<>>
    /\ artifacts_list = <<>>
    /\ aggregate = None
    /\ calls = <<>>
    /\ last = NoCall
    /\ parked = NoFrame
    /\ llm = NoExchange
    /\ rca = NoRca
    /\ response = NoResponse

Next ==
    \/ GetIncident
    \/ ListTable
    \/ FetchIncident
    \/ FetchSpans
    \/ FetchArtifact
    \/ Analyze

Spec == Init /\ [][Next]_vars

\* Every await of a handler ends: the call returns, fails, or times out after
\* the 10 or 30 seconds given to the client (lines 132, 151, 183, 292), and
\* the event loop resumes the handler.
SpecLive == Spec /\ WF_vars(Next)

\* analyze_with_groq called with an aggregate already assembled.
DirectAggregate ==
    IncidentWithRelations(IncidentsTable[2], <<SpanRow("s9", "ord-2", "d3", "d3", TRUE)>>,
                          <<ArtifactRow("d3", TRUE)>>)

InitNorm ==
    /\ db \in {d \in Databases : Len(d.spans) = 1 /\ Len(d.artifacts) = 3
                                   /\ \A k \in 1..3 : d.artifacts[k].valid}
    /\ coerce \in BOOLEAN
    /\ endpoint = "direct"
    /\ incident_id = "inc-2"
    /\ pc = "analyze_with_groq"
    /\ env = ServingEnv
    /\ PORT = DEFAULT_PORT
    /\ health = NoHealth
    /\ filters_arg = NoFilters
    /\ url = NoUrl
    /\ incident = NoRow
    /\ spans_list = <<>>
    /\ artifact_digests = {}
    /\ remaining = <<>>
    /\ artifacts_list = <<>>
    /\ aggregate = DirectAggregate
    /\ calls = <<>>
    /\ last = NoCall
    /\ parked = NoFrame
    /\ llm = NoExchange
    /\ rca = NoRca
    /\ response = NoResponse

NextNorm == AnalyzeDirect

SpecNorm == InitNorm /\ [][NextNorm]_vars

(***************************************************************************)
(* Two requests in one process.  The event loop runs one coroutine at a    *)
(* time and changes coroutine only at an await; every name a handler       *)
(* assigns is a local of its call (lines 191-226, 228-356, 387-465), and   *)
(* the module globals of lines 22-25 are assigned at import only.          *)
(***************************************************************************)

\* The frame of the request that is running.
running_frame ==
    Frame(endpoint, incident_id, pc, incident, spans_list, artifact_digests,
          remaining, artifacts_list, aggregate, calls, last, llm, rca, response)

\* What a suspended coroutine finds when it is resumed: its own frame,
\* whatever the coroutine that ran meanwhile assigned.
resumed_with_shared_list(frame, other) ==
    [frame EXCEPT !.artifacts_list = other.artifacts_list]

resumed(frame, other) == frame

\* The running request is suspended at its await and the other one resumed.
Switch ==
    /\ parked.endpoint # "none"
    /\ parked' = running_frame
    /\ LET frame == resumed(parked, running_frame)
       IN  /\ endpoint' = frame.endpoint
           /\ incident_id' = frame.incident_id
           /\ pc' = frame.pc
           /\ incident' = frame.incident
           /\ spans_list' = frame.spans_list
           /\ artifact_digests' = frame.artifact_digests
           /\ remaining' = frame.remaining
           /\ artifacts_list' = frame.artifacts_list
           /\ aggregate' = frame.aggregate
           /\ calls' = frame.calls
           /\ last' = frame.last
           /\ llm' = frame.llm
           /\ rca' = frame.rca
           /\ response' = frame.response
    /\ UNCHANGED <<db, coerce, boot_vars, url_vars>>

\* The stores of the two-request runs: one span of the requested order.
PairDatabases ==
    {d \in Databases : /\ Len(d.spans) = 2
                       /\ d.spans[1].args_digest = "d1"
                       /\ Len(d.artifacts) = 3
                       /\ \A k \in 1..3 : d.artifacts[k].valid}

InitPair ==
    /\ db \in PairDatabases
    /\ coerce = TRUE
    /\ endpoint \in {"full", "analyze"}
    /\ incident_id \in {"inc-1", "inc-9"}
    /\ pc = entry_of(endpoint)
    /\ parked \in {ArrivedFrame(e, id) :
                     e \in {"incident", "full"}, id \in {"inc-1", "inc-2"}}
                 \cup {ArrivedFrame("artifacts", "")}
    /\ env = ServingEnv
    /\ PORT = DEFAULT_PORT
    /\ health = NoHealth
    /\ filters_arg = NoFilters
    /\ url = NoUrl
    /\ incident = NoRow
    /\ spans_list = <<>>
    /\ artifact_digests = {}
    /\ remaining = <<>>
    /\ artifacts_list = <<>>
    /\ aggregate = None
    /\ calls = <<>>
    /\ last = NoCall
    /\ llm = NoExchange
    /\ rca = NoRca
    /\ response = NoResponse

NextPair == Next \/ Switch

SpecPair == InitPair /\ [][NextPair]_vars

\* The process is started in some environment, and when it serves, a
\* GET /health request arrives.
InitHealth ==
    /\ db = [incidents |-> IncidentsTable, spans |-> <<>>, artifacts |-> <<>>]
    /\ coerce = FALSE
    /\ endpoint = "health"
    /\ incident_id = ""
    /\ pc = "import"
    /\ env \in Environments
    /\ PORT = 0
    /\ health = NoHealth
    /\ filters_arg = NoFilters
    /\ url = NoUrl
    /\ incident = NoRow
    /\ spans_list = <<>>
    /\ artifact_digests = {}
    /\ remaining = <<>>
    /\ artifacts_list = <<>>
    /\ aggregate = None
    /\ calls = <<>>
    /\ last = NoCall
    /\ parked = NoFrame
    /\ llm = NoExchange
    /\ rca = NoRca
    /\ response = NoResponse

NextHealth == LoadModule \/ StartupEvent \/ HealthSupabase \/ HealthGroq

SpecHealth == InitHealth /\ [][NextHealth]_vars

\* get_supabase_data is called with a table and filters.
InitUrl ==
    /\ db = [incidents |-> IncidentsTable, spans |-> <<>>, artifacts |-> <<>>]
    /\ coerce = FALSE
    /\ endpoint = "gateway"
    /\ incident_id = ""
    /\ pc = "get_supabase_data"
    /\ env = ServingEnv
    /\ PORT = DEFAULT_PORT
    /\ health = NoHealth
    /\ filters_arg \in GatewayArguments
    /\ url = NoUrl
    /\ incident = NoRow
    /\ spans_list = <<>>
    /\ artifact_digests = {}
    /\ remaining = <<>>
    /\ artifacts_list = <<>>
    /\ aggregate = None
    /\ calls = <<>>
    /\ last = NoCall
    /\ parked = NoFrame
    /\ llm = NoExchange
    /\ rca = NoRca
    /\ response = NoResponse

NextUrl == BuildUrl

SpecUrl == InitUrl /\ [][NextUrl]_vars

(***************************************************************************)
(* The claims.                                                             *)
(***************************************************************************)

\* The number of positions of q that hold x.
Occurrences(q, x) == Cardinality({k \in 1..Len(q) : q[k] = x})

\* The rows of a table whose column field holds value, in table order.
RowsWhere(table, field, value) ==
    IF field = "" THEN db[table]
    ELSE SelectSeq(db[table], LAMBDA r : r[field] = value)

\* The latest entry of calls.
LastCall == calls[Len(calls)]

\* C1: get_supabase_data never raises to its caller; when the exchange ends
\* in a network error, a non-2xx status or a body that is not JSON it returns
\* the empty list, and when the store answers with rows it returns exactly
\* the rows the store sent for the filter.
C1_GatewayNeverRaises ==
    (last.outcome # "none" /\ LastCall.to = "store") =>
        /\ ~last.ret.raised
        /\ last.outcome \in GatewayFailures => last.ret = Returned("list", <<>>)
        /\ last.outcome = "rows" =>
              last.ret = Returned("list", RowsWhere(LastCall.table, LastCall.field,
                                                    LastCall.value))

\* C1's case: the spans fetch fails on the network after the incident was
\* found, the gateway returns [], and the assembler goes on to return an
\* aggregate.
C1_Witness ==
    /\ calls # <<>>
    /\ LastCall.to = "store"
    /\ LastCall.table = "spans"
    /\ last.outcome = "network_error"
    /\ last.ret.rows = <<>>
    /\ aggregate.present

\* The incidents table has no row for the requested identifier.
NoMatchingIncident == RowsWhere("incidents", "incident_id", incident_id) = <<>>

\* C2: for an identifier with no matching incident row, get_incident_data
\* returns None after the incident fetch alone (no span or artifact fetch)
\* and the handler answers 404; and an aggregate that is returned always holds
\* the incident that was asked for, never a null or empty one.
C2_NotFound ==
    /\ (NoMatchingIncident /\ calls # <<>> /\ endpoint \in {"full", "analyze"}) =>
          /\ aggregate = None
          /\ Len(calls) = 1
          /\ calls[1].table = "incidents"
          /\ pc = "done"
          /\ response = Respond(404, "detail")
    /\ aggregate.present =>
          /\ aggregate.incident.valid
          /\ aggregate.incident.incident_id = incident_id

\* C2's case: GET /incidents/inc-9/full, the store answers the incident fetch
\* with no row, the response is 404.
C2_Witness ==
    /\ endpoint = "full"
    /\ incident_id = "inc-9"
    /\ last.outcome = "rows"
    /\ pc = "done"
    /\ response.status = 404

\* The digests of a list of artifacts, and of the spans of an aggregate.
DigestsOf(artifacts) == {artifacts[k].digest : k \in 1..Len(artifacts)}
ReferencedBy(spans) ==
    {d \in {"d1", "d2", "d3"} :
        \E k \in 1..Len(spans) : spans[k].args_digest = d \/ spans[k].result_digest = d}

\* The digests whose artifact fetch, in this request, came back with a row.
FetchedWithRow ==
    {calls[k].value : k \in {j \in 1..Len(calls) :
        /\ calls[j].table = "artifacts"
        /\ calls[j].outcome = "rows"
        /\ RowsWhere("artifacts", "digest", calls[j].value) # <<>>}}

NoRepeatedDigest(artifacts) ==
    \A i, j \in 1..Len(artifacts) : i # j => artifacts[i].digest # artifacts[j].digest

SpansShareOrder(agg) ==
    \A k \in 1..Len(agg.spans) : agg.spans[k].order_id = agg.incident.order_id

\* C3 as stated: every returned aggregate has spans of the incident's order
\* only, and its artifacts' digests are exactly the digests its spans
\* reference, none repeated.
C3_Original ==
    aggregate.present =>
        /\ SpansShareOrder(aggregate)
        /\ DigestsOf(aggregate.artifacts) = ReferencedBy(aggregate.spans)
        /\ NoRepeatedDigest(aggregate.artifacts)

\* C3 as amended: every returned aggregate has spans of the incident's order
\* only, and its artifacts' digests are exactly those referenced digests whose
\* artifact fetch returned a row (a subset of the referenced digests), none
\* repeated.
C3_AggregateInvariant ==
    aggregate.present =>
        /\ SpansShareOrder(aggregate)
        /\ DigestsOf(aggregate.artifacts) \subseteq ReferencedBy(aggregate.spans)
        /\ DigestsOf(aggregate.artifacts) = FetchedWithRow
        /\ NoRepeatedDigest(aggregate.artifacts)

\* C3's case: an aggregate of two spans, one of whose referenced digests has
\* no artifact while another has.
C3_Witness ==
    /\ aggregate.present
    /\ Len(aggregate.spans) = 2
    /\ aggregate.artifacts # <<>>
    /\ DigestsOf(aggregate.artifacts) # ReferencedBy(aggregate.spans)

\* The digests referenced at two places at least: by two spans, or as both
\* the input and the output of one.
SharedDigests(spans) ==
    {d \in ReferencedBy(spans) : Occurrences(digest_list(spans), d) >= 2}

ArtifactDigestList(agg) == [k \in 1..Len(agg.artifacts) |-> agg.artifacts[k].digest]

\* C4 as stated: a digest referenced twice is in the aggregate's artifact list
\* exactly once.
C4_Original ==
    aggregate.present =>
        \A d \in SharedDigests(aggregate.spans) :
            Occurrences(ArtifactDigestList(aggregate), d) = 1

\* C4 as amended: a digest referenced twice is in the aggregate's artifact
\* list at most once: exactly once when its artifact fetch returned a row, and
\* not at all when it returned none.
C4_SharedDigestOnce ==
    aggregate.present =>
        \A d \in SharedDigests(aggregate.spans) :
            Occurrences(ArtifactDigestList(aggregate), d)
                = IF d \in FetchedWithRow THEN 1 ELSE 0

\* C4's case: two spans, the output digest of one the input digest of the
\* other, and the artifact of that digest in the list.
C4_Witness ==
    /\ aggregate.present
    /\ Len(aggregate.spans) = 2
    /\ aggregate.spans[1].result_digest = aggregate.spans[2].args_digest
    /\ aggregate.spans[1].result_digest \in DigestsOf(aggregate.artifacts)

\* The LLM answered with a 2xx response that carries a reply text.
ReplyGiven == pc = "done" /\ llm.outcome = "ok" /\ llm.body = "text"

\* The candidate text of the given reply and what json.loads makes of it.
Candidate == clean_content(llm.content)
Decoded == json_loads(Candidate)

\* The result is the fallback of lines 344-352, field by field.
IsFallbackResult(r) ==
    /\ r.kind = "RCAResponse"
    /\ r.summary = FALLBACK_SUMMARY
    /\ r.root_cause = FALLBACK_ROOT_CAUSE
    /\ r.contributing_factors = <<FALLBACK_FACTOR>>
    /\ r.recommendations = <<FALLBACK_RECOMMENDATION>>
    /\ r.email_draft = FALLBACK_EMAIL_DRAFT

\* C5 as stated: analyze_with_groq raises only on a transport failure of the
\* LLM call; whenever the endpoint answers 2xx, whatever the body, an RCA
\* Result is returned.
C5_Original ==
    pc = "done" =>
        /\ response.status = 500 => llm.outcome \in LlmTransportFailures
        /\ llm.outcome = "ok" =>
              /\ response = Respond(200, "rca")
              /\ rca.kind = "RCAResponse"

\* C6: a reply whose candidate text is not valid JSON gives the fixed
\* fallback result, the same canned fields for every such reply, and no
\* error.
C6_InvalidJsonFallsBack ==
    (ReplyGiven /\ ~Decoded.ok) =>
        /\ IsFallbackResult(rca)
        /\ rca.via = "fallback"
        /\ response = Respond(200, "rca")

\* C6's case: the reply "not json at all" has been normalised to the
\* fallback.
C6_Witness ==
    /\ ReplyGiven
    /\ llm.content = TEXT_PROSE
    /\ rca.summary = FALLBACK_SUMMARY
    /\ response.status = 200

\* The keys whose value the RCAResponse class takes as a str, and as a list
\* of str.
StrKeys == {KEY_SUMMARY, KEY_ROOT_CAUSE, KEY_EMAIL_DRAFT}
ListKeys == {KEY_CONTRIBUTING_FACTORS, KEY_RECOMMENDATIONS}

\* A decoded value of the expected shape: an object whose present fields are
\* strings, and lists of strings.
WellTyped(val) ==
    /\ val.t = "dict"
    /\ \A k \in StrKeys \cap DOMAIN val.v : val.v[k].t = "str"
    /\ \A k \in ListKeys \cap DOMAIN val.v :
          /\ val.v[k].t = "list"
          /\ \A n \in 1..Len(val.v[k].v) : val.v[k].v[n].t = "str"

\* C7 as stated: a candidate that is JSON but not of the expected shape (an
\* array, a string, a number, an object with an ill-typed field) still gives
\* the fallback result and no error response.
C7_Original ==
    (ReplyGiven /\ Decoded.ok /\ ~WellTyped(Decoded.val)) =>
        /\ IsFallbackResult(rca)
        /\ response = Respond(200, "rca")

\* C8 as stated: a JSON object text inside a json-tagged or a bare fence,
\* with any whitespace around, is normalised to the same result as the bare
\* text.
C8_Original ==
    ReplyGiven =>
        \A body \in ObjectTexts : \A n \in 0..MaxPad :
            llm.content \in {JsonFenced(body, n), BareFenced(body, n)} =>
                rca = normalize(body, coerce)

\* The trimmed reply holds a fence marker, and its last fence marker does
\* not lie after the end of its opening fence.
OpeningFenceEnd(text) ==
    IF contains(text, FENCE_JSON) THEN find(text, FENCE_JSON) + Len(FENCE_JSON)
    ELSE find(text, FENCE) + Len(FENCE)

UnpairedFence(text) ==
    /\ contains(text, FENCE)
    /\ rfind(text, FENCE) <= OpeningFenceEnd(text)

\* C9 as stated: such a reply never faults and gives the fallback result.
C9_Original ==
    (ReplyGiven /\ UnpairedFence(strip(llm.content))) =>
        /\ IsFallbackResult(rca)
        /\ response = Respond(200, "rca")

\* The five keys with the default that replaces each when it is missing
\* (lines 332-336), as the value the result then carries.
ResultKeys == StrKeys \cup ListKeys

DefaultOf(key) ==
    CASE key = KEY_SUMMARY -> DEFAULT_SUMMARY
      [] key = KEY_ROOT_CAUSE -> DEFAULT_ROOT_CAUSE
      [] key = KEY_EMAIL_DRAFT -> DEFAULT_EMAIL_DRAFT
      [] OTHER -> <<>>

FieldOf(r, key) ==
    CASE key = KEY_SUMMARY -> r.summary
      [] key = KEY_ROOT_CAUSE -> r.root_cause
      [] key = KEY_EMAIL_DRAFT -> r.email_draft
      [] key = KEY_CONTRIBUTING_FACTORS -> r.contributing_factors
      [] OTHER -> r.recommendations

\* The value a well-typed present field gives the result.
PresentValue(val, key) ==
    IF key \in StrKeys THEN val.v[key].v
    ELSE [n \in 1..Len(val.v[key].v) |-> val.v[key].v[n].v]

\* C10: when the candidate decodes to an object, a missing key never gives
\* the fallback or an error: an error comes from an ill-typed present field
\* only; and when the present fields are well typed, every present key gives
\* the result its value and every missing key its fixed default.
C10_MissingKeysDefault ==
    (ReplyGiven /\ Decoded.ok /\ Decoded.val.t = "dict") =>
        /\ rca.via # "fallback"
        /\ rca.kind = "raised" => ~WellTyped(Decoded.val)
        /\ WellTyped(Decoded.val) =>
              /\ rca.kind = "RCAResponse"
              /\ response = Respond(200, "rca")
              /\ \A key \in ResultKeys :
                    FieldOf(rca, key) =
                        IF key \in DOMAIN Decoded.val.v
                        THEN PresentValue(Decoded.val, key)
                        ELSE DefaultOf(key)

\* C10's case: an object with a summary and factors but no root cause, no
\* recommendations and no email draft has been normalised.
C10_Witness ==
    /\ ReplyGiven
    /\ Decoded.ok
    /\ Decoded.val.t = "dict"
    /\ DOMAIN Decoded.val.v = {KEY_SUMMARY, KEY_CONTRIBUTING_FACTORS}
    /\ rca.summary = <<"s">>
    /\ Len(rca.contributing_factors) = MaxList
    /\ rca.root_cause = DEFAULT_ROOT_CAUSE
    /\ rca.recommendations = <<>>
    /\ rca.email_draft = DEFAULT_EMAIL_DRAFT

\* A request went to the LLM in this request.
LlmCalled == \E k \in 1..Len(calls) : calls[k].to = "llm"

\* get_incident_data has returned to the handler.
AssemblyReturned == pc \in {"analyze_with_groq", "done"}

\* C11: POST /rca/analyze for an identifier get_incident_data reports as not
\* found (returns None) ends with a 404, and no request goes to the LLM.
C11_AnalyzeNotFound ==
    (endpoint = "analyze" /\ AssemblyReturned /\ ~aggregate.present) =>
        /\ pc = "done"
        /\ response = Respond(404, "detail")
        /\ ~LlmCalled

\* C11's case: POST /rca/analyze for inc-9, which has no row, has been
\* answered with 404 after the incident fetch alone.
C11_Witness ==
    /\ endpoint = "analyze"
    /\ incident_id = "inc-9"
    /\ last.outcome = "rows"
    /\ pc = "done"
    /\ response.status = 404
    /\ Len(calls) = 1

\* C12: when the LLM call of POST /rca/analyze fails at the transport level
\* (connection error, timeout, non-2xx status) the request ends with a 500
\* error that carries a detail, not with the degraded body and not with a
\* result, fallback or other.
C12_TransportFailureIs500 ==
    (endpoint = "analyze" /\ pc = "done" /\ llm.outcome \in LlmTransportFailures) =>
        /\ response = Respond(500, "detail")
        /\ rca = NoRca

\* C12's case: the aggregate was assembled, the LLM call timed out, the
\* response is a 500.
C12_Witness ==
    /\ endpoint = "analyze"
    /\ aggregate.present
    /\ llm.outcome = "timeout"
    /\ response.status = 500

\* C13: every 200 response of POST /rca/analyze is an RCAResponse, built from
\* the parsed reply or as the fallback, and so carries summary, root_cause,
\* contributing_factors, recommendations and email_draft; none is the
\* degraded body or a value that lacks them.
C13_SuccessHasFiveFields ==
    (endpoint = "analyze" /\ response.status = 200) =>
        /\ response.body = "rca"
        /\ rca.kind = "RCAResponse"
        /\ rca.via \in {"parsed", "fallback"}
        /\ rca.via = "fallback" => IsFallbackResult(rca)
        /\ rca.via = "parsed" =>
              /\ Decoded.ok
              /\ Decoded.val.t = "dict"
              /\ \A key \in ResultKeys \cap DOMAIN Decoded.val.v :
                    FieldOf(rca, key) = PresentValue(Decoded.val, key)

\* C13's case: a fenced reply with all five fields was answered with 200.
C13_Witness ==
    /\ endpoint = "analyze"
    /\ response.status = 200
    /\ llm.content = JsonFenced(FullObject, 0)
    /\ rca.via = "parsed"
    /\ rca.summary = <<"s">>

\* C14: GET /incidents/{id} answers with one row, the first of the rows the
\* store sent for incident_id = id, when there is one, and with 404 when the
\* gateway returned none; the body is never a list, and a row it carries is
\* one the store matched.
C14_SingleIncident ==
    (endpoint = "incident" /\ pc = "done" /\ last.ret.type = "list") =>
        /\ last.ret.rows # <<>> =>
              response = RespondRows(200, "row",
                             <<RowsWhere("incidents", "incident_id", incident_id)[1]>>)
        /\ last.ret.rows = <<>> => response = Respond(404, "detail")
        /\ response.body # "list"
        /\ \A k \in 1..Len(response.rows) :
              response.rows[k].incident_id = incident_id

\* C14's case: two rows have the identifier inc-1, the response is the first.
C14_Witness ==
    /\ endpoint = "incident"
    /\ pc = "done"
    /\ Len(last.ret.rows) = 2
    /\ response.status = 200
    /\ response.rows = <<IncidentsTable[1]>>

\* The rows the store holds for the request: the incident rows of the
\* identifier, and the span rows of the order of the first of them.
IncidentRows == RowsWhere("incidents", "incident_id", incident_id)
OrderSpans == RowsWhere("spans", "order_id", IncidentRows[1].order_id)

\* Every digest the order's spans reference has an artifact row.
AllResolve ==
    \A d \in ReferencedBy(OrderSpans) : RowsWhere("artifacts", "digest", d) # <<>>

\* The incident row, the span rows and the artifact rows they resolve to have
\* the fields of their records.
WellFormedRows ==
    /\ IncidentRows[1].valid
    /\ \A k \in 1..Len(OrderSpans) : OrderSpans[k].valid
    /\ \A d \in ReferencedBy(OrderSpans) :
          RowsWhere("artifacts", "digest", d)[1].valid

\* The store answered every fetch of this request with rows.
AllAnswered ==
    \A k \in 1..Len(calls) : calls[k].to = "store" => calls[k].outcome = "rows"

CompleteAggregate(agg) ==
    /\ agg.present
    /\ Len(agg.spans) = Len(OrderSpans)
    /\ Len(agg.artifacts) = Cardinality(ReferencedBy(OrderSpans))

FetchedWithoutRow ==
    {calls[k].value : k \in {j \in 1..Len(calls) :
        /\ calls[j].table = "artifacts"
        /\ \/ calls[j].outcome \in GatewayFailures
           \/ /\ calls[j].outcome = "rows"
              /\ RowsWhere("artifacts", "digest", calls[j].value) = <<>>}}

\* C20: an artifact fetch that returns no row does not end the assembly, and
\* the aggregate then returned holds the incident, all the spans fetched and
\* the artifacts of the digests that did return a row, without the digest
\* that returned none; the handler answers 200, not an error.
C20_MissingArtifactOmitted ==
    /\ (/\ endpoint \in {"full", "analyze"}
        /\ calls # <<>>
        /\ LastCall.table = "artifacts"
        /\ last.ret = Returned("list", <<>>)) =>
          \/ pc = "fetch_artifacts"
          \/ AssemblyReturned /\ aggregate.present
    /\ aggregate.present =>
          /\ aggregate.incident = IncidentRows[1]
          /\ aggregate.spans = spans_list
          /\ DigestsOf(aggregate.artifacts) \cap FetchedWithoutRow = {}
          /\ FetchedWithRow \subseteq DigestsOf(aggregate.artifacts)
          /\ FetchedWithRow \cup FetchedWithoutRow = ReferencedBy(aggregate.spans)
          /\ (endpoint = "full" /\ pc = "done") => response = Respond(200, "aggregate")

\* C20's case: the store holds no artifact for d2, which a span references;
\* the aggregate has both spans and the artifact of another digest, and the
\* response is 200.
C20_Witness ==
    /\ endpoint = "full"
    /\ pc = "done"
    /\ aggregate.present
    /\ Len(aggregate.spans) = 2
    /\ AllAnswered
    /\ "d2" \in FetchedWithoutRow
    /\ aggregate.artifacts # <<>>
    /\ response.status = 200

\* The probes health_check has called in this request.
HealthProbes(to) ==
    {k \in 1..Len(calls) : calls[k].to = to /\ calls[k].field = "health_check"}

\* C15: in health_check, when the LLM credential is absent the groq check is
\* "not_configured" and no request goes to the LLM; the LLM probe is called
\* only when the credential is present.  Stated of the check for every value
\* of the credential, and of every GET /health request of a started process.
C15_GroqProbeOnlyWhenConfigured ==
    /\ \A key \in EnvValues, outcome \in ProbeOutcomes :
          /\ ~Truthy(key) => groq_check(key, outcome) = Check("not_configured", FALSE)
          /\ groq_check(key, outcome).called => Truthy(key)
    /\ HealthProbes("llm") # {} => Truthy(env.GROQ_API_KEY)
    /\ (endpoint = "health" /\ pc = "done") =>
          /\ health.groq = "not_configured" <=> ~Truthy(env.GROQ_API_KEY)
          /\ health.groq # "not_configured" => Cardinality(HealthProbes("llm")) = 1

\* C15's case: a GET /health request of a process whose credential is set
\* has called the LLM probe once and reports its result.
C15_Witness ==
    /\ endpoint = "health"
    /\ pc = "done"
    /\ Truthy(env.GROQ_API_KEY)
    /\ Cardinality(HealthProbes("llm")) = 1
    /\ health.groq = "False"

CheckValues == {"True", "False", "not_configured"}

\* C16: GET /health never raises: whatever the two probes' exchanges end
\* with, each check is a boolean or "not_configured" and the response is a
\* 200 whose body has a status.
C16_HealthNeverRaises ==
    /\ (endpoint = "health" /\ pc = "health_groq") => health.supabase \in CheckValues
    /\ (endpoint = "health" /\ pc = "done") =>
          /\ response = Respond(200, "health")
          /\ health.status \in {"healthy", "degraded"}
          /\ health.supabase \in CheckValues
          /\ health.groq \in CheckValues

\* C16's case: the data-store probe ended in a network error and the LLM
\* probe in a timeout, and the request was answered.
C16_Witness ==
    /\ endpoint = "health"
    /\ pc = "done"
    /\ \E k \in HealthProbes("store") : calls[k].outcome = "network_error"
    /\ \E k \in HealthProbes("llm") : calls[k].outcome = "timeout"
    /\ health = HealthBody("healthy", "False", "False")

\* A handler, or the startup event, can run.
Started == pc \notin {"import", "exited"}

\* None of the three required values is absent or empty.
RequiredNames == {"SUPABASE_URL", "SUPABASE_KEY", "GROQ_API_KEY"}
AllRequiredSet == \A name \in RequiredNames : env[name] # "None" /\ env[name] # ""

\* C17: the process does not start when one of SUPABASE_URL, SUPABASE_KEY and
\* GROQ_API_KEY is absent or empty, so that no handler runs with one of them
\* missing; when PORT alone is absent the process starts and PORT is 8000.
C17_RefusesToStart ==
    /\ Started => AllRequiredSet
    /\ (pc # "import" /\ ~AllRequiredSet) => pc = "exited"
    /\ (pc # "import" /\ AllRequiredSet /\ ~env.PORT.present) =>
          Started /\ PORT = 8000

\* C17's case: the LLM key is empty, the other two values are set, and the
\* process has ended at load.
C17_Witness ==
    /\ pc = "exited"
    /\ env.SUPABASE_URL = "set"
    /\ env.SUPABASE_KEY = "set"
    /\ env.GROQ_API_KEY = ""
    /\ env.PORT = PortUnset
    /\ calls = <<>>

\* The URL of the call has been built.
UrlBuilt == endpoint = "gateway" /\ pc = "client_get"

\* The entries of the mapping whose value is not None, in the mapping's order.
RECURSIVE GivenEntries(_)
GivenEntries(items) ==
    IF items = <<>> THEN <<>>
    ELSE IF Head(items)[2].none THEN GivenEntries(Tail(items))
    ELSE <<Head(items)>> \o GivenEntries(Tail(items))

\* The text after the first "?" of a URL, or nothing.
QueryString(u) ==
    IF contains(u, <<"?">>) THEN slice(u, find(u, <<"?">>) + 1, Len(u)) ELSE <<>>

\* A text cut at every "&".
RECURSIVE SplitClauses(_)
SplitClauses(text) ==
    IF ~contains(text, <<"&">>) THEN <<text>>
    ELSE <<SubSeq(text, 1, find(text, <<"&">>))>>
             \o SplitClauses(SubSeq(text, find(text, <<"&">>) + 2, Len(text)))

\* The clauses a receiver reads in a URL.
ClausesOf(u) == IF QueryString(u) = <<>> THEN <<>> ELSE SplitClauses(QueryString(u))

\* The text field=eq.value of an entry.
EntryClause(entry) == entry[1] \o <<"=", "e", "q", ".">> \o entry[2].text

\* The query string of the entries, the first clause bare, every next one
\* after an "&".
RECURSIVE QueryOfEntries(_)
QueryOfEntries(entries) ==
    IF entries = <<>> THEN <<>>
    ELSE IF Len(entries) = 1 THEN EntryClause(entries[1])
    ELSE QueryOfEntries(SubSeq(entries, 1, Len(entries) - 1))
             \o <<"&">> \o EntryClause(entries[Len(entries)])

\* No value of the entries holds a character that separates clauses.
PlainValues(entries) ==
    \A k \in 1..Len(entries) : ~contains(entries[k][2].text, <<"&">>)

\* C19: the URL get_supabase_data requests is the table's URL followed, when
\* some filter value is not None, by "?" and one clause field=eq.value per
\* such entry, joined by "&", in the mapping's order; with no filters, or
\* None values only, it has no query string.  Values are written as they
\* are: a receiver reads back one clause per entry when no value holds "&".
C19_QueryString ==
    UrlBuilt =>
        LET entries == GivenEntries(filters_arg.items)
            base == SUPABASE_URL_TEXT \o REST_PATH \o filters_arg.table
        IN  /\ entries = <<>> => url = base /\ ~contains(url, <<"?">>)
            /\ entries # <<>> => url = base \o <<"?">> \o QueryOfEntries(entries)
            /\ PlainValues(entries) =>
                  ClausesOf(url) = [k \in 1..Len(entries) |-> EntryClause(entries[k])]

\* C19's case: a mapping of two entries, the first with the value None, gives
\* a URL with the one clause of the second.
C19_Witness ==
    /\ UrlBuilt
    /\ Len(filters_arg.items) = 2
    /\ filters_arg.items[1][2].none
    /\ ~filters_arg.items[2][2].none
    /\ Len(ClausesOf(url)) = 1
    /\ contains(url, <<"?">>)

\* The incident fetch was answered with rows, the first a row that builds an
\* Incident.
IncidentFetched ==
    /\ calls # <<>>
    /\ calls[1].table = "incidents"
    /\ calls[1].outcome = "rows"
    /\ IncidentRows # <<>>
    /\ IncidentRows[1].valid

\* Every fetch of the request ended with rows or with a failure.
NoObjectAnswer ==
    \A k \in 1..Len(calls) : calls[k].outcome # "json_object"

\* C21 as stated: once the incident row has been fetched, no failure while
\* the spans and artifacts are fetched and built (a failed fetch, a row that
\* builds no record) ends the assembly: get_incident_data returns an
\* aggregate that holds the incident, not None.
C21_Original ==
    (/\ endpoint \in {"full", "analyze"}
     /\ AssemblyReturned
     /\ IncidentFetched
     /\ NoObjectAnswer) =>
        /\ aggregate.present
        /\ aggregate.incident = IncidentRows[1]

\* The artifact fetches of the request, as the digests fetched, in order.
ArtifactFetches ==
    LET fetches == SelectSeq(calls, LAMBDA c : c.table = "artifacts")
    IN  [k \in 1..Len(fetches) |-> fetches[k].value]

\* C22 as stated: in an assembly the artifact fetches are made one after the
\* other, exactly one for each distinct digest the fetched spans reference.
C22_Original ==
    (/\ endpoint \in {"full", "analyze"}
     /\ AssemblyReturned
     /\ NoObjectAnswer) =>
        /\ \A d \in ReferencedBy(spans_list) : Occurrences(ArtifactFetches, d) = 1
        /\ \A k \in 1..Len(ArtifactFetches) :
              ArtifactFetches[k] \in ReferencedBy(spans_list)

\* The requests of this request that went to the store, and to the LLM.
StoreRequests == {k \in 1..Len(calls) : calls[k].to = "store"}
LlmRequests == {k \in 1..Len(calls) : calls[k].to = "llm"}

\* C23: no outbound call is retried: no fetch (a table with a filter value)
\* is sent to the store twice in a request, at most one request goes to the
\* LLM, and a failed call ends as an empty result (a fetch) or as a 500 (the
\* LLM call), not as a second request.
C23_NoRetry ==
    /\ \A i, j \in StoreRequests :
          (calls[i].table = calls[j].table /\ calls[i].value = calls[j].value) => i = j
    /\ Cardinality(LlmRequests) <= 1
    /\ (calls # <<>> /\ LastCall.to = "store" /\ LastCall.outcome \in GatewayFailures) =>
          last.ret = Returned("list", <<>>)
    /\ (pc = "done" /\ llm.outcome \in LlmTransportFailures) =>
          /\ response.status = 500
          /\ LastCall.to = "llm"

\* C23's case: POST /rca/analyze whose spans fetch failed and whose LLM call
\* failed ended with a 500 after three requests, one per call.
C23_Witness ==
    /\ endpoint = "analyze"
    /\ pc = "done"
    /\ Len(calls) = 3
    /\ calls[2].outcome = "status_error"
    /\ llm.outcome = "connect_error"
    /\ response.status = 500

\* C25: in a POST /rca/analyze request the calls go out in the order incident
\* fetch, spans fetch, artifact fetches, LLM call: the LLM call is the last
\* call, made once the aggregate is assembled (every referenced digest
\* fetched), and no call to the store follows it.
C25_CallOrder ==
    endpoint = "analyze" =>
        /\ \A k \in 1..Len(calls) :
              /\ calls[k].table = "incidents" <=> k = 1
              /\ calls[k].table = "spans" <=> k = 2
              /\ calls[k].table = "artifacts" <=> (k >= 3 /\ calls[k].to = "store")
              /\ calls[k].to = "llm" => (k >= 3 /\ k = Len(calls))
        /\ LlmCalled =>
              /\ aggregate.present
              /\ remaining = <<>>
              /\ Len(ArtifactFetches) = Cardinality(ReferencedBy(aggregate.spans))
              /\ \A d \in ReferencedBy(aggregate.spans) :
                    Occurrences(ArtifactFetches, d) = 1

\* C25's case: the incident fetch, the spans fetch, two artifact fetches and
\* then the LLM call.
C25_Witness ==
    /\ endpoint = "analyze"
    /\ pc = "done"
    /\ Len(calls) = 5
    /\ calls[3].table = "artifacts"
    /\ calls[4].table = "artifacts"
    /\ calls[5].to = "llm"

\* The first call of the request, the incident fetch or the table fetch,
\* failed.
FirstFetchFailed == calls # <<>> /\ calls[1].outcome \in GatewayFailures

\* C28: a failed fetch reads as absence: when the incident fetch fails,
\* GET /incidents/{id}, GET /incidents/{id}/full and POST /rca/analyze answer
\* the 404 of an unknown identifier; GET /incidents, GET /spans and
\* GET /artifacts answer an empty array; and when the store's exchanges end
\* in rows or failures, no response is the degraded body, and none is a 500
\* unless the LLM call failed.
C28_FailureReadsAsAbsence ==
    /\ (endpoint \in {"incident", "full", "analyze"} /\ FirstFetchFailed) =>
          /\ pc = "done"
          /\ Len(calls) = 1
          /\ response = Respond(404, "detail")
    /\ (endpoint \in ListEndpoints /\ FirstFetchFailed) =>
          /\ pc = "done"
          /\ response = RespondRows(200, "list", <<>>)
    /\ NoObjectAnswer =>
          /\ response.body # "degraded"
          /\ response.status = 500 => (LlmCalled /\ rca.kind # "RCAResponse")

\* C28's case: GET /spans whose fetch met a network error was answered with
\* an empty array, though the table holds rows.
C28_Witness ==
    /\ endpoint = "spans"
    /\ pc = "done"
    /\ calls[1].outcome = "network_error"
    /\ db.spans # <<>>
    /\ response = RespondRows(200, "list", <<>>)

\* C29: the status GET /health reports does not depend on what the probes
\* found: the answered request reports "healthy" whatever the two checks
\* are, false ones included, and at no point of the request is the status
\* "degraded".
C29_HealthyWhateverProbesFind ==
    /\ (endpoint = "health" /\ pc = "done") => health.status = "healthy"
    /\ health.status # "degraded"

\* C29's case: both probes were answered with a status other than 200, both
\* checks are false and the request was answered "healthy".
C29_Witness ==
    /\ endpoint = "health"
    /\ pc = "done"
    /\ \E k \in HealthProbes("store") : calls[k].outcome = "status_other"
    /\ \E k \in HealthProbes("llm") : calls[k].outcome = "status_other"
    /\ health.supabase = "False"
    /\ health.groq = "False"
    /\ health.status = "healthy"

\* The 1-based positions at which pat occurs in s.
Positions(s, pat) == {i \in 1..Len(s) : StartsAt(s, i, pat)}
Lowest(S) == CHOOSE i \in S : \A j \in S : i <= j
Highest(S) == CHOOSE i \in S : \A j \in S : i >= j

\* What an extraction strategy yields: a candidate or no match.
NoMatch == [match |-> FALSE, text |-> <<>>]
Match(text) == [match |-> TRUE, text |-> text]

\* The strategy of the opening marker open: the text from the end of its
\* first occurrence to the last fence marker, when at least one character
\* lies between them.
Strategy(s, open) ==
    IF Positions(s, open) = {} THEN NoMatch
    ELSE IF Highest(Positions(s, FENCE)) > Lowest(Positions(s, open)) + Len(open)
         THEN Match(SubSeq(s, Lowest(Positions(s, open)) + Len(open),
                           Highest(Positions(s, FENCE)) - 1))
         ELSE NoMatch

\* The candidate when a strategy without a match falls through to the next.
FallThrough(s) ==
    IF Strategy(s, FENCE_JSON).match THEN Strategy(s, FENCE_JSON).text
    ELSE IF Strategy(s, FENCE).match THEN Strategy(s, FENCE).text
    ELSE s

\* The candidate when the markers present choose the one strategy that is
\* tried, and its failure leaves the text as it is.
Tagged(s) == Positions(s, FENCE_JSON) # {}
ChosenByMarker(s) ==
    IF Strategy(s, IF Tagged(s) THEN FENCE_JSON ELSE FENCE).match
    THEN Strategy(s, IF Tagged(s) THEN FENCE_JSON ELSE FENCE).text
    ELSE s

\* The reply given, stripped, and whether the result is the fallback.
Cleaned == strip(llm.content)
FellBack == rca.kind = "RCAResponse" /\ rca.via = "fallback"
Parses(text) == json_loads(strip(text)).ok

\* C26 as stated: the three strategies fall through: a json-tagged reply
\* whose json strategy yields no candidate gets the bare-fence strategy, and
\* the fallback applies exactly when the candidate so found fails to parse.
C26_Original == ReplyGiven => (FellBack <=> ~Parses(FallThrough(Cleaned)))

\* C26, amended: the markers present choose the single strategy tried, the
\* json-tagged one when the text holds a json tag, else the bare one when it
\* holds a fence marker; when that strategy yields no candidate the text is
\* taken verbatim, and the fallback applies exactly when the candidate
\* fails to parse.
C26_OneStrategyTried == ReplyGiven => (FellBack <=> ~Parses(ChosenByMarker(Cleaned)))

\* C26's case: a JSON object inside a bare fence that is closed by a
\* json-tagged marker: the json strategy yields nothing, the bare strategy
\* would have found the object, and the result is the fallback.
C26_Witness ==
    /\ ReplyGiven
    /\ \E b \in ObjectTexts : llm.content = TagLast(b) /\ Parses(b)
    /\ ~Strategy(Cleaned, FENCE_JSON).match
    /\ Parses(FallThrough(Cleaned))
    /\ IsFallbackResult(rca)

\* The text between the end of the first json tag and the last fence
\* marker, empty when the marker does not lie after it.
TagToLastMarker(s) ==
    SubSeq(s, Lowest(Positions(s, FENCE_JSON)) + Len(FENCE_JSON),
           Highest(Positions(s, FENCE)) - 1)

DigestCount ==
    IF IncidentRows = <<>> THEN 0 ELSE Cardinality(ReferencedBy(OrderSpans))

\* The outbound calls of a request are within the bound: two fetches and one
\* per distinct digest for assembly, one LLM call for the analysis and none
\* for the other endpoints.
CallsBounded ==
    /\ Cardinality(StoreRequests) <= 2 + DigestCount
    /\ Cardinality(LlmRequests) <= IF endpoint = "analyze" THEN 1 ELSE 0
    /\ Len(calls) = Cardinality(StoreRequests) + Cardinality(LlmRequests)

\* C27: every request terminates: when every call made ends, the handler
\* reaches its end, having made no more outbound calls than the bound, with
\* a response, and the response once produced is not replaced.
C27_Terminates ==
    /\ <>(pc = "done")
    /\ [](CallsBounded /\ (pc = "done" <=> response # NoResponse))
    /\ [][response # NoResponse => response' = response]_vars

\* C27's case: an analysis whose incident's spans reference three digests has
\* ended after two fetches, three artifact fetches and the LLM call.
C27_Witness ==
    /\ endpoint = "analyze"
    /\ pc = "done"
    /\ DigestCount = 3
    /\ Cardinality(StoreRequests) = 5
    /\ Cardinality(LlmRequests) = 1
    /\ response = Respond(200, "rca")

\* What the request of frame f produces when it runs alone, from start to
\* end, against the answers its calls received: the outcome of each store
\* call, the digest each artifact fetch asked for, and the LLM exchange.
AnswerTo(f, k, table, filters) ==
    IF k <= Len(f.calls) THEN get_supabase_data(table, filters, f.calls[k].outcome)
    ELSE Returned("list", <<>>)

RECURSIVE AloneArtifacts(_, _, _, _, _)
AloneArtifacts(f, inc, spans, k, list) ==
    IF k > 2 + Cardinality(ReferencedBy(spans)) \/ k > Len(f.calls)
    THEN IncidentWithRelations(inc, spans, list)
    ELSE IF ~artifact_step_ok(AnswerTo(f, k, "artifacts", <<<<"digest", f.calls[k].value>>>>))
         THEN None
         ELSE AloneArtifacts(f, inc, spans, k + 1,
                  artifacts_appended(list,
                      AnswerTo(f, k, "artifacts", <<<<"digest", f.calls[k].value>>>>)))

AloneSpans(f, inc) ==
    IF ~spans_built(AnswerTo(f, 2, "spans", span_filters(inc))) THEN None
    ELSE AloneArtifacts(f, inc, AnswerTo(f, 2, "spans", span_filters(inc)).rows,
                        3, <<>>)

AloneData(f) ==
    IF ~incident_found(AnswerTo(f, 1, "incidents", <<<<"incident_id", f.incident_id>>>>))
    THEN None
    ELSE AloneSpans(f, AnswerTo(f, 1, "incidents",
                               <<<<"incident_id", f.incident_id>>>>).rows[1])

AloneAnswer(response_alone, aggregate_alone, rca_alone) ==
    [response |-> response_alone, aggregate |-> aggregate_alone, rca |-> rca_alone]

Alone(f) ==
    IF f.endpoint = "incident"
    THEN AloneAnswer(get_incident(AnswerTo(f, 1, "incidents",
                         <<<<"incident_id", f.incident_id>>>>)), None, NoRca)
    ELSE IF f.endpoint \in ListEndpoints
    THEN AloneAnswer(list_response(AnswerTo(f, 1, f.endpoint, <<>>)), None, NoRca)
    ELSE IF f.endpoint = "full"
    THEN AloneAnswer(get_incident_full(AloneData(f)), AloneData(f), NoRca)
    ELSE IF ~AloneData(f).present
    THEN AloneAnswer(Respond(404, "detail"), None, NoRca)
    ELSE AloneAnswer(analyze_incident(analyze_with_groq(f.llm, coerce)),
                     AloneData(f), analyze_with_groq(f.llm, coerce).rca)

\* The frames of the two requests.
BothRequests == {running_frame, parked}

\* C24: requests are independent: in every interleaving of two requests, a
\* request that has ended has the response, the aggregate and the analysis
\* it produces when run alone against the same store and LLM answers, and
\* the configuration is what it was at start.
C24_Independent ==
    /\ \A f \in BothRequests :
          f.pc = "done" =>
              /\ f.response = Alone(f).response
              /\ f.aggregate = Alone(f).aggregate
              /\ f.rca = Alone(f).rca
    /\ env = ServingEnv
    /\ PORT = DEFAULT_PORT

\* C24's case: a request for the full incident has ended with its two
\* artifacts while another request for the same incident is suspended in its
\* loop, one artifact fetched.
C24_Witness ==
    /\ endpoint = "full"
    /\ pc = "done"
    /\ response = Respond(200, "aggregate")
    /\ Len(aggregate.artifacts) = 2
    /\ parked.endpoint = "full"
    /\ parked.incident_id = incident_id
    /\ parked.pc = "fetch_artifacts"
    /\ Len(parked.artifacts_list) = 1

=============================================================================
